---- MODULE Spec2Model ----
(***************************************************************************)
(* A model of src/algorithms.py: the clustering algorithms (KMeans,        *)
(* KMedoids, AGNES, DIANA, DBSCAN), the KNN classifier, train_test_split,  *)
(* the preprocessing classes (SimpleImputer, MinMaxScaler, StandardScaler) *)
(* and the metrics.                                                        *)
(*                                                                         *)
(* Numbers.  Rows of X have integer features.  Every quantity the code     *)
(* derives from them is rational (a mean, a squared norm) or, for rows of  *)
(* one feature, the absolute difference (the Euclidean norm of a           *)
(* one-feature row).  A rational is the pair <<num, den>> with den > 0 and *)
(* two rationals are compared by cross multiplication, so the model        *)
(* computes in exact arithmetic where the code computes in float64.        *)
(* Python's 0-based indices are kept: X, labels and visited are functions  *)
(* on 0..n_samples-1; Python lists are sequences.  None is the string      *)
(* "None".                                                                 *)
(***************************************************************************)
EXTENDS Integers, Sequences, FiniteSets, TLC

\* ------------------------------------------------------------------ bounds
MaxN == 3           \* rows of a clustering input
MaxNWide == 5       \* rows of an input of SpecKMedoids, which looks at longer inputs
MaxCoord == 3       \* feature values are 0..MaxCoord
MaxK == 2           \* configured cluster counts are 0..MaxK
MaxIters == 2       \* configured max_iters are 0..MaxIters
MaxEps == 2         \* configured eps are 0..MaxEps
MaxMinSamples == 3  \* configured min_samples are 1..MaxMinSamples
MaxTrain == 2       \* rows of a labelled input (KNN, train_test_split)
MaxLabel == 1       \* class labels are 0..MaxLabel
MaxLen == 3         \* label vectors given to a metric have 0..MaxLen labels
MaxPrepRows == 2    \* rows of a matrix given to fit of a preprocessing class
MaxCell == 2        \* present cells of such a matrix are 0..MaxCell

NumCols == 2        \* columns of such a matrix

None == "None"

VARIABLES
    alg,            \* which class (or function) the instance is
    pc,             \* "constructed" | "loop" | "labelling" | "fitted" | "predicted" | "done" | "error"
    X,              \* the argument X of fit (None before the call)
    k,              \* self.k
    labels,         \* self.labels
    max_iters,      \* self.max_iters
    it,             \* passes of the for loop completed
    inertia,        \* history: the sum of squared distances after each assignment step
    refitted,       \* history: fit was called on an instance that fit had been called on
    tol,            \* self.tol, a rational (KMeans)
    centroids,      \* self.centroids: index -> [s: sums of the rows, c: count], the mean s/c
    reseeds,        \* history: the passes of the loop in which line 28 reseeded a centroid
    medoid_indices, \* self.medoid_indices: index -> row of X
    medoids,        \* self.medoids: index -> row value
    total_dist,     \* history: the sum of distances after each assignment step (KMedoids)
    linkage,        \* self.linkage (AGNES)
    clusters,       \* the local list of lists of row indices (AGNES, DIANA)
    broke,          \* history: the while loop was left by its break statement
    eps,            \* self.eps (DBSCAN)
    min_samples,    \* self.min_samples
    visited,        \* the local array visited
    cluster_id,     \* the local cluster_id
    scan_i,         \* the index i of the for loop of DBSCAN.fit
    noised,         \* history: the rows that line 268 labelled -1
    y,              \* the argument y of KNN.fit / train_test_split
    X_train,        \* self.X_train (KNN)
    y_train,        \* self.y_train (KNN)
    X_query,        \* the argument of KNN.predict
    predictions,    \* what KNN.predict returned
    test_size,      \* the argument test_size, a rational
    n_test,         \* the local n_test
    indices,        \* the local permutation indices
    split,          \* what train_test_split returned
    y_true,         \* the argument y_true of a metric, a list of labels
    y_pred,         \* the argument y_pred of a metric
    average,        \* the argument average of precision_score, recall_score, f1_score
    result,         \* what the metric returned
    strategy,       \* self.strategy (SimpleImputer)
    stats_,         \* self.stats_: column -> rational or NaN (None until fit stores it)
    min_,           \* self.min_: column -> value (MinMaxScaler)
    max_,           \* self.max_
    range_,         \* self.range_
    mean_,          \* self.mean_: column -> rational (StandardScaler)
    std_,           \* self.std_: column -> the rational whose square root it is
    X_arg,          \* the argument X of transform, as the caller passed it
    X_after,        \* that argument as transform left it
    X_new,          \* what transform returned
    nb_classes,     \* self.classes (GaussianNaiveBayes), a sorted list of labels
    nb_mean,        \* self.mean: class index -> column -> rational
    nb_var,         \* self.var: class index -> column -> [v: rational, eps: times 1e-9 was added]
    nb_priors       \* self.priors: class index -> rational

commonVars == <<alg, pc, X, k, labels>>
iterVars == <<max_iters, it, inertia, refitted>>
kmeansVars == <<tol, centroids, reseeds>>
kmedoidsVars == <<medoid_indices, medoids, total_dist>>
hierVars == <<linkage, clusters, broke>>
dbscanVars == <<eps, min_samples, visited, cluster_id, scan_i, noised>>
knnVars == <<X_train, y_train, X_query, predictions>>
splitVars == <<test_size, n_test, indices, split>>
metricsVars == <<y_true, y_pred, average, result>>
prepVars == <<strategy, stats_, min_, max_, range_, mean_, std_, X_arg, X_after, X_new>>
gnbVars == <<nb_classes, nb_mean, nb_var, nb_priors>>

vars == <<commonVars, iterVars, kmeansVars, kmedoidsVars, hierVars, dbscanVars, y, knnVars,
          splitVars, metricsVars, prepVars, gnbVars>>

\* what an instance of another class does not have
NoIter == max_iters = None /\ it = 0 /\ inertia = <<>> /\ refitted = FALSE
NoKMeans == tol = None /\ centroids = None /\ reseeds = {}
NoKMedoids == medoid_indices = None /\ medoids = None /\ total_dist = <<>>
NoHier == linkage = None /\ clusters = None /\ broke = FALSE
NoDBSCAN ==
    /\ eps = None /\ min_samples = None /\ visited = None /\ cluster_id = None
    /\ scan_i = None /\ noised = {}
NoKNN == y = None /\ X_train = None /\ y_train = None /\ X_query = None /\ predictions = None
NoSplit == test_size = None /\ n_test = None /\ indices = None /\ split = None
NoMetrics == y_true = None /\ y_pred = None /\ average = None /\ result = None
NoGNB == nb_classes = None /\ nb_mean = None /\ nb_var = None /\ nb_priors = None
NoPrep ==
    /\ strategy = None /\ stats_ = None /\ min_ = None /\ max_ = None /\ range_ = None
    /\ mean_ = None /\ std_ = None /\ X_arg = None /\ X_after = None /\ X_new = None

\* ----------------------------------------------------------------- helpers
Abs(a) == IF a < 0 THEN -a ELSE a

RECURSIVE SumFn(_)
SumFn(f) ==
    IF DOMAIN f = {} THEN 0
    ELSE LET x == CHOOSE x \in DOMAIN f : TRUE
         IN  f[x] + SumFn([z \in (DOMAIN f) \ {x} |-> f[z]])

RECURSIVE ProdFn(_)
ProdFn(f) ==
    IF DOMAIN f = {} THEN 1
    ELSE LET x == CHOOSE x \in DOMAIN f : TRUE
         IN  f[x] * ProdFn([z \in (DOMAIN f) \ {x} |-> f[z]])

\* rationals <<num, den>>, den > 0
RLess(a, b) == a[1] * b[2] < b[1] * a[2]
RLeq(a, b) == a[1] * b[2] <= b[1] * a[2]
REq(a, b) == a[1] * b[2] = b[1] * a[2]

NRows(M) == Cardinality(DOMAIN M)
Rows(M) == DOMAIN M

\* X = np.array(X): the matrices with 1..maxRows rows of one feature
Matrices(maxRows) ==
    UNION {[0..(n - 1) -> {<<c>> : c \in 0..MaxCoord}] : n \in 1..maxRows}

\* np.random.choice(n_samples, k, replace=False): k distinct rows, in any order
Choices(n, kk) ==
    {s \in [0..(kk - 1) -> 0..(n - 1)] : \A a, b \in 0..(kk - 1) : a # b => s[a] # s[b]}

\* ------------------------------------------------------------------ KMeans
\* the squared distance of row x to the centroid c.s / c.c, a rational
SqDistToCentroid(x, c) ==
    <<SumFn([d \in DOMAIN x |-> (c.c * x[d] - c.s[d]) * (c.c * x[d] - c.s[d])]), c.c * c.c>>

\* np.argmin(distances, axis=1) of one row: the lowest index of a nearest centroid
\* (comparing norms is comparing their squares)
NearestCentroid(x, cents) ==
    CHOOSE j \in DOMAIN cents :
        \A j2 \in DOMAIN cents :
            /\ RLeq(SqDistToCentroid(x, cents[j]), SqDistToCentroid(x, cents[j2]))
            /\ j2 < j => RLess(SqDistToCentroid(x, cents[j]), SqDistToCentroid(x, cents[j2]))

KMeansAssign(M, cents) == [i \in Rows(M) |-> NearestCentroid(M[i], cents)]

\* seeded fault: the centroid is the first row of the cluster, not the mean
ClusterMean_FirstRow(M, members) == [s |-> M[CHOOSE i \in members : \A o \in members : i <= o], c |-> 1]

\* cluster_points.mean(axis=0)
ClusterMean(M, members) ==
    LET D == DOMAIN M[CHOOSE i \in members : TRUE]
    IN  [s |-> [d \in D |-> SumFn([i \in members |-> M[i][d]])], c |-> Cardinality(members)]

\* X[r] as a centroid
RowAsCentroid(x) == [s |-> x, c |-> 1]

\* lines 22-28: the new centroids; seed[i] is the row np.random.choice(n_samples)
\* draws for the empty cluster i
NewCentroids(M, lab, kk, seed) ==
    [i \in 0..(kk - 1) |->
        IF \E r \in Rows(M) : lab[r] = i
        THEN ClusterMean(M, {r \in Rows(M) : lab[r] = i})
        ELSE RowAsCentroid(M[seed[i]])]

EmptyClusters(M, lab, kk) == {i \in 0..(kk - 1) : \A r \in Rows(M) : lab[r] # i}

\* seeded fault: the loop stops after its first pass
Converged_Always(new, old, t) == TRUE

\* seeded fault: a centroid that moved by exactly tol counts as converged
Converged_Leq(new, old, t) ==
    \A i \in DOMAIN new : \A d \in DOMAIN new[i].s :
        Abs(new[i].s[d] * old[i].c - old[i].s[d] * new[i].c) * t[2]
            <= t[1] * new[i].c * old[i].c

\* np.all(np.abs(new_centroids - self.centroids) < self.tol)
Converged(new, old, t) ==
    \A i \in DOMAIN new : \A d \in DOMAIN new[i].s :
        Abs(new[i].s[d] * old[i].c - old[i].s[d] * new[i].c) * t[2]
            < t[1] * new[i].c * old[i].c

\* the sum over the rows of the squared distance to the assigned centroid
SumSquares(M, lab, cents) ==
    LET den == ProdFn([j \in DOMAIN cents |-> cents[j].c * cents[j].c])
    IN  <<SumFn([i \in Rows(M) |->
                  SqDistToCentroid(M[i], cents[lab[i]])[1]
                      * (den \div (cents[lab[i]].c * cents[lab[i]].c))]), den>>

Tols == {<<1, 10000>>, <<0, 1>>}

InitKMeans ==
    /\ alg = "KMeans"
    /\ pc = "constructed"
    /\ X = None
    /\ k \in 0..MaxK
    /\ max_iters \in 0..MaxIters
    /\ tol \in Tols
    /\ labels = None
    /\ centroids = None
    /\ reseeds = {}
    /\ it = 0
    /\ inertia = <<>>
    /\ refitted = FALSE
    /\ NoKMedoids /\ NoHier /\ NoDBSCAN /\ NoKNN /\ NoSplit
    /\ NoMetrics /\ NoPrep /\ NoGNB

\* seeded fault: a second fit starts from the centroids the instance already has
StartCentroids_WarmStart(M, idx) ==
    IF pc = "done" THEN centroids
    ELSE [j \in DOMAIN idx |-> [s |-> M[idx[j]], c |-> 1]]

\* line 16: X[idx]
StartCentroids(M, idx) == [j \in DOMAIN idx |-> RowAsCentroid(M[idx[j]])]

\* lines 12-16, up to the for loop, on an X of the set inputs, called when the instance
\* is at one of pcs; the loop counter is local to the call, and so are the histories
KMeansFitFrom(inputs, pcs) ==
    /\ alg = "KMeans" /\ pc \in pcs
    /\ \E M \in inputs :
        /\ X' = M
        /\ IF k > NRows(M)
           THEN \* np.random.choice raises ValueError
                /\ pc' = "error"
                /\ UNCHANGED centroids
           ELSE /\ \E idx \in Choices(NRows(M), k) : centroids' = StartCentroids(M, idx)
                /\ pc' = IF max_iters = 0 THEN "done" ELSE "loop"
    /\ it' = 0 /\ inertia' = <<>> /\ reseeds' = {}
    /\ refitted' = (pc # "constructed")
    /\ UNCHANGED <<alg, k, max_iters, tol, labels>>
    /\ UNCHANGED <<kmedoidsVars, hierVars, dbscanVars, y, knnVars, splitVars, metricsVars, prepVars, gnbVars>>

\* fit on a new instance
KMeansFitOn(inputs) == KMeansFitFrom(inputs, {"constructed"})

\* lines 18-34, one pass of the for loop (and the return when it was the last one)
KMeansIter ==
    /\ alg = "KMeans" /\ pc = "loop" /\ it < max_iters
    /\ IF k = 0
       THEN \* np.argmin of an empty axis raises ValueError
            /\ pc' = "error"
            /\ UNCHANGED <<labels, centroids, it, inertia, reseeds>>
       ELSE /\ labels' = KMeansAssign(X, centroids)
            /\ inertia' = Append(inertia, SumSquares(X, labels', centroids))
            /\ \E seed \in [EmptyClusters(X, labels', k) -> Rows(X)] :
                   centroids' = NewCentroids(X, labels', k, seed)
            /\ reseeds' = IF EmptyClusters(X, labels', k) # {} THEN reseeds \cup {it + 1}
                          ELSE reseeds
            /\ pc' = IF Converged(centroids', centroids, tol) \/ it + 1 = max_iters
                     THEN "done" ELSE "loop"
            /\ it' = it + 1
    /\ UNCHANGED <<alg, X, k, max_iters, tol, refitted>>
    /\ UNCHANGED <<kmedoidsVars, hierVars, dbscanVars, y, knnVars, splitVars, metricsVars, prepVars, gnbVars>>

KMeansFit == KMeansFitOn(Matrices(MaxN))

NextKMeans == KMeansFit \/ KMeansIter

SpecKMeans == InitKMeans /\ [][NextKMeans]_vars

\* the matrix of the specification's concrete scenario, four rows of two features
ScenarioX == [i \in 0..3 |-> <<<<0, 0>>, <<0, 1>>, <<5, 5>>, <<5, 6>>>>[i + 1]]

\* line 4: max_iters=100
DefaultMaxIters == 100

\* KMeans as InitKMeans constructs it, or with the default max_iters
InitScenario ==
    /\ alg = "KMeans"
    /\ pc = "constructed"
    /\ X = None
    /\ k \in 0..MaxK
    /\ max_iters \in (0..MaxIters) \cup {DefaultMaxIters}
    /\ tol \in Tols
    /\ labels = None
    /\ centroids = None
    /\ reseeds = {}
    /\ it = 0
    /\ inertia = <<>>
    /\ refitted = FALSE
    /\ NoKMedoids /\ NoHier /\ NoDBSCAN /\ NoKNN /\ NoSplit
    /\ NoMetrics /\ NoPrep /\ NoGNB

KMeansFitScenario == KMeansFitOn({ScenarioX})

NextScenario == KMeansFitScenario \/ KMeansIter

\* KMeans on the matrix of the concrete scenario
SpecScenario == InitScenario /\ [][NextScenario]_vars

\* ---------------------------------------------------------------- KMedoids
\* np.linalg.norm of the difference of two rows of one feature
Norm(p, q) == Abs(p[1] - q[1])

SqDist(p, q) == SumFn([d \in DOMAIN p |-> (p[d] - q[d]) * (p[d] - q[d])])

\* np.argmin(distances, axis=1) of one row: the lowest index of a nearest medoid
NearestMedoid(x, meds) ==
    CHOOSE j \in DOMAIN meds :
        \A j2 \in DOMAIN meds :
            /\ SqDist(x, meds[j]) <= SqDist(x, meds[j2])
            /\ j2 < j => SqDist(x, meds[j]) < SqDist(x, meds[j2])

KMedoidsAssign(M, meds) == [i \in Rows(M) |-> NearestMedoid(M[i], meds)]

\* line 75: np.sum(np.linalg.norm(cluster_points - X[idx], axis=1))
MedoidCost(M, members, idx) == SumFn([r \in members |-> Norm(M[r], M[idx])])

\* seeded fault: the comparison of line 76 reversed, so the member of the greatest cost wins
BestMedoid_Worst(M, members) ==
    CHOOSE b \in members :
        \A o \in members :
            /\ MedoidCost(M, members, b) >= MedoidCost(M, members, o)
            /\ o < b => MedoidCost(M, members, b) > MedoidCost(M, members, o)

\* lines 69-78: the first member, in index order, of the least cost
BestMedoid(M, members) ==
    CHOOSE b \in members :
        \A o \in members :
            /\ MedoidCost(M, members, b) <= MedoidCost(M, members, o)
            /\ o < b => MedoidCost(M, members, b) < MedoidCost(M, members, o)

\* seeded fault: an empty cluster takes the first row as its medoid
NewMedoidIndices_EmptyFirst(M, lab, old) ==
    [i \in DOMAIN old |->
        IF \A r \in Rows(M) : lab[r] # i THEN 0
        ELSE BestMedoid(M, {r \in Rows(M) : lab[r] = i})]

\* lines 61-82: new_medoid_indices; an empty cluster keeps its medoid
NewMedoidIndices(M, lab, old) ==
    [i \in DOMAIN old |->
        IF \A r \in Rows(M) : lab[r] # i THEN old[i]
        ELSE BestMedoid(M, {r \in Rows(M) : lab[r] = i})]

SumSquaresToMedoids(M, lab, meds) == SumFn([i \in Rows(M) |-> SqDist(M[i], meds[lab[i]])])

SumDistToMedoids(M, lab, meds) == SumFn([i \in Rows(M) |-> Norm(M[i], meds[lab[i]])])

InitKMedoids ==
    /\ alg = "KMedoids"
    /\ pc = "constructed"
    /\ X = None
    /\ k \in 0..MaxK
    /\ max_iters \in 0..MaxIters
    /\ labels = None
    /\ medoid_indices = None
    /\ medoids = None
    /\ it = 0
    /\ inertia = <<>>
    /\ refitted = FALSE
    /\ total_dist = <<>>
    /\ NoKMeans /\ NoHier /\ NoDBSCAN /\ NoKNN /\ NoSplit
    /\ NoMetrics /\ NoPrep /\ NoGNB

\* lines 51-55, up to the for loop, on an X of the set inputs, called when the instance
\* is at one of pcs
KMedoidsFitFrom(inputs, pcs) ==
    /\ alg = "KMedoids" /\ pc \in pcs
    /\ \E M \in inputs :
        /\ X' = M
        /\ IF k > NRows(M)
           THEN \* np.random.choice raises ValueError
                /\ pc' = "error"
                /\ UNCHANGED <<medoid_indices, medoids>>
           ELSE /\ \E idx \in Choices(NRows(M), k) : medoid_indices' = idx
                /\ medoids' = [j \in 0..(k - 1) |-> M[medoid_indices'[j]]]
                /\ pc' = IF max_iters = 0 THEN "done" ELSE "loop"
    /\ it' = 0 /\ inertia' = <<>> /\ total_dist' = <<>>
    /\ refitted' = (pc # "constructed")
    /\ UNCHANGED <<alg, k, labels, max_iters>>
    /\ UNCHANGED <<kmeansVars, hierVars, dbscanVars, y, knnVars, splitVars, metricsVars, prepVars, gnbVars>>

\* fit on a new instance, on an X of at most maxRows rows
KMedoidsFitOn(maxRows) == KMedoidsFitFrom(Matrices(maxRows), {"constructed"})

\* lines 57-88, one pass of the for loop (and the return when it was the last one)
KMedoidsIter ==
    /\ alg = "KMedoids" /\ pc = "loop" /\ it < max_iters
    /\ IF k = 0
       THEN \* np.argmin of an empty axis raises ValueError
            /\ pc' = "error"
            /\ UNCHANGED <<labels, medoid_indices, medoids, it, inertia, total_dist>>
       ELSE /\ labels' = KMedoidsAssign(X, medoids)
            /\ inertia' = Append(inertia, SumSquaresToMedoids(X, labels', medoids))
            /\ total_dist' = Append(total_dist, SumDistToMedoids(X, labels', medoids))
            /\ medoid_indices' = NewMedoidIndices(X, labels', medoid_indices)
            /\ medoids' = [j \in 0..(k - 1) |-> X[medoid_indices'[j]]]
            /\ pc' = IF medoid_indices' = medoid_indices \/ it + 1 = max_iters
                     THEN "done" ELSE "loop"
            /\ it' = it + 1
    /\ UNCHANGED <<alg, X, k, max_iters, refitted>>
    /\ UNCHANGED <<kmeansVars, hierVars, dbscanVars, y, knnVars, splitVars, metricsVars, prepVars, gnbVars>>

KMedoidsFit == KMedoidsFitOn(MaxN)

KMedoidsFitWide == KMedoidsFitOn(MaxNWide)

NextKMedoids == KMedoidsFit \/ KMedoidsIter

NextKMedoidsWide == KMedoidsFitWide \/ KMedoidsIter

\* KMedoids alone, on inputs of up to MaxN rows
SpecKMedoidsNarrow == InitKMedoids /\ [][NextKMedoids]_vars

\* KMedoids alone, on inputs of up to MaxNWide rows
SpecKMedoids == InitKMedoids /\ [][NextKMedoidsWide]_vars

\* ------------------------------------------------------------------- AGNES
MinOf(S) == CHOOSE m \in S : \A o \in S : m <= o
MaxOf(S) == CHOOSE m \in S : \A o \in S : m >= o

SeqToSet(s) == {s[p] : p \in DOMAIN s}

\* list(s) of a set of small row indices: in increasing order
RECURSIVE SetToSeq(_)
SetToSeq(S) == IF S = {} THEN <<>> ELSE <<MinOf(S)>> \o SetToSeq(S \ {MinOf(S)})

Linkages == {"single", "complete", "average"}

\* lines 135-144: the distance of two clusters under a known linkage, a rational
ClusterDistance(M, c1, c2, link) ==
    LET pairs == SeqToSet(c1) \X SeqToSet(c2)
        dists == {Norm(M[pr[1]], M[pr[2]]) : pr \in pairs}
    IN  CASE link = "single" -> <<MinOf(dists), 1>>
          [] link = "complete" -> <<MaxOf(dists), 1>>
          [] link = "average" ->
                <<SumFn([pr \in pairs |-> Norm(M[pr[1]], M[pr[2]])]), Cardinality(pairs)>>

\* the pairs (i, j), i < j, of positions of the list of clusters
ClusterPairs(cl) == {pr \in (1..Len(cl)) \X (1..Len(cl)) : pr[1] < pr[2]}

PairBefore(a, b) == a[1] < b[1] \/ (a[1] = b[1] /\ a[2] < b[2])

\* seeded fault: dist <= min_dist, the last pair of the least distance
MergePair_Last(M, cl, link) ==
    CHOOSE pr \in ClusterPairs(cl) :
        \A o \in ClusterPairs(cl) :
            LET dp == ClusterDistance(M, cl[pr[1]], cl[pr[2]], link)
                do == ClusterDistance(M, cl[o[1]], cl[o[2]], link)
            IN  /\ RLeq(dp, do)
                /\ PairBefore(pr, o) => RLess(dp, do)

\* lines 109-119: the first pair, in the order of the two loops, of the least distance
MergePair(M, cl, link) ==
    CHOOSE pr \in ClusterPairs(cl) :
        \A o \in ClusterPairs(cl) :
            LET dp == ClusterDistance(M, cl[pr[1]], cl[pr[2]], link)
                do == ClusterDistance(M, cl[o[1]], cl[o[2]], link)
            IN  /\ RLeq(dp, do)
                /\ PairBefore(o, pr) => RLess(dp, do)

\* seeded fault: the pop of line 125 left out
Merged_NoPop(cl, i, j) == [cl EXCEPT ![i] = cl[i] \o cl[j]]

\* lines 124-125: clusters[merge_i].extend(clusters[merge_j]); clusters.pop(merge_j)
Merged(cl, i, j) ==
    LET ext == [cl EXCEPT ![i] = cl[i] \o cl[j]]
    IN  SubSeq(ext, 1, j - 1) \o SubSeq(ext, j + 1, Len(ext))

\* seeded fault: cluster ids counted from 1
LabelsOf_FromOne(M, cl) ==
    [r \in Rows(M) |->
        IF \E p \in DOMAIN cl : r \in SeqToSet(cl[p])
        THEN CHOOSE p \in DOMAIN cl : r \in SeqToSet(cl[p]) /\ \A o \in DOMAIN cl : r \in SeqToSet(cl[o]) => o <= p
        ELSE 0]

\* lines 127-130 (182-185): the label of a row is the position of its cluster, from 0;
\* a row in no cluster keeps the 0 of np.zeros
LabelsOf(M, cl) ==
    [r \in Rows(M) |->
        IF \E p \in DOMAIN cl : r \in SeqToSet(cl[p])
        THEN MaxOf({p \in DOMAIN cl : r \in SeqToSet(cl[p])}) - 1
        ELSE 0]

InitAGNES ==
    /\ alg = "AGNES"
    /\ pc = "constructed"
    /\ X = None
    /\ k \in 0..(MaxK + 1)
    /\ linkage \in Linkages \cup {"ward"}
    /\ labels = None
    /\ clusters = None
    /\ broke = FALSE
    /\ NoIter /\ NoKMeans /\ NoKMedoids /\ NoDBSCAN /\ NoKNN /\ NoSplit
    /\ NoMetrics /\ NoPrep /\ NoGNB

\* lines 103-106
AGNESFit ==
    /\ alg = "AGNES" /\ pc = "constructed"
    /\ \E M \in Matrices(MaxN) :
        /\ X' = M
        /\ clusters' = [p \in 1..NRows(M) |-> <<p - 1>>]
    /\ pc' = "loop"
    /\ UNCHANGED <<alg, k, labels, linkage, broke>>
    /\ UNCHANGED <<iterVars, kmeansVars, kmedoidsVars, dbscanVars, y, knnVars, splitVars, metricsVars, prepVars, gnbVars>>

\* lines 108-125, one pass of the while loop
AGNESStep ==
    /\ alg = "AGNES" /\ pc = "loop" /\ Len(clusters) > k
    /\ IF ClusterPairs(clusters) = {}
       THEN \* merge_i == -1: break
            /\ broke' = TRUE
            /\ pc' = "labelling"
            /\ UNCHANGED clusters
       ELSE IF linkage \notin Linkages
       THEN \* _calculate_cluster_distance raises ValueError
            /\ pc' = "error"
            /\ UNCHANGED <<clusters, broke>>
       ELSE /\ LET pr == MergePair(X, clusters, linkage)
               IN  clusters' = Merged(clusters, pr[1], pr[2])
            /\ UNCHANGED <<pc, broke>>
    /\ UNCHANGED <<alg, X, k, labels, linkage>>
    /\ UNCHANGED <<iterVars, kmeansVars, kmedoidsVars, dbscanVars, y, knnVars, splitVars, metricsVars, prepVars, gnbVars>>

\* lines 127-132
AGNESReturn ==
    /\ alg = "AGNES"
    /\ pc = "labelling" \/ (pc = "loop" /\ Len(clusters) <= k)
    /\ labels' = LabelsOf(X, clusters)
    /\ pc' = "done"
    /\ UNCHANGED <<alg, X, k, hierVars>>
    /\ UNCHANGED <<iterVars, kmeansVars, kmedoidsVars, dbscanVars, y, knnVars, splitVars, metricsVars, prepVars, gnbVars>>

NextAGNES == AGNESFit \/ AGNESStep \/ AGNESReturn

SpecAGNES == InitAGNES /\ [][NextAGNES]_vars

\* ------------------------------------------------------------------- DIANA
\* lines 189-194
Diameter(M, members) ==
    IF Len(members) < 2 THEN 0
    ELSE MaxOf({Norm(M[a], M[b]) : a \in SeqToSet(members), b \in SeqToSet(members)})

\* seeded fault: diameter >= max_diameter, the last cluster of the largest diameter
SplitIdx_Last(M, cl) ==
    LET cand == {p \in DOMAIN cl : Len(cl[p]) >= 2}
    IN  IF cand = {} THEN 0
        ELSE CHOOSE p \in cand :
                \A o \in cand :
                    /\ Diameter(M, cl[p]) >= Diameter(M, cl[o])
                    /\ o > p => Diameter(M, cl[p]) > Diameter(M, cl[o])

\* lines 161-170: the first cluster of two or more rows of the largest diameter, 0 for none
\* (-1 in the code, whose positions start at 0)
SplitIdx(M, cl) ==
    LET cand == {p \in DOMAIN cl : Len(cl[p]) >= 2}
    IN  IF cand = {} THEN 0
        ELSE CHOOSE p \in cand :
                \A o \in cand :
                    /\ Diameter(M, cl[p]) >= Diameter(M, cl[o])
                    /\ o < p => Diameter(M, cl[p]) > Diameter(M, cl[o])

\* np.mean(np.linalg.norm(X[idx] - X[others], axis=1)), a rational; others is not empty
MeanDist(M, idx, others) == <<SumFn([o \in others |-> Norm(M[idx], M[o])]), Cardinality(others)>>

\* lines 200-210: the first row of B, in the order of the set, of the largest mean distance
\* to the other rows of B; -1 when no row of B has another
InitialSplinter(M, B) ==
    IF Cardinality(B) < 2 THEN -1
    ELSE CHOOSE s \in B :
            \A o \in B :
                /\ RLeq(MeanDist(M, o, B \ {o}), MeanDist(M, s, B \ {s}))
                /\ o < s => RLess(MeanDist(M, o, B \ {o}), MeanDist(M, s, B \ {s}))

\* lines 223-230: val = dist_to_B - dist_to_A of the row idx of B, a rational
MoveVal(M, A, B, idx) ==
    LET dA == MeanDist(M, idx, A)
        dB == IF B \ {idx} = {} THEN <<0, 1>> ELSE MeanDist(M, idx, B \ {idx})
    IN  <<dB[1] * dA[2] - dA[1] * dB[2], dA[2] * dB[2]>>

\* lines 219-236: the first row of B, in the order of the set, of the largest val
MoveCandidate(M, A, B) ==
    CHOOSE c \in B :
        \A o \in B :
            /\ RLeq(MoveVal(M, A, B, o), MoveVal(M, A, B, c))
            /\ o < c => RLess(MoveVal(M, A, B, o), MoveVal(M, A, B, c))

\* seeded fault: max_diff >= 0, a row that is as far from A as from B moves too
RECURSIVE MoveLoop_OnZero(_, _, _)
MoveLoop_OnZero(M, A, B) ==
    IF B = {} THEN <<A, B>>
    ELSE LET c == MoveCandidate(M, A, B)
         IN  IF RLeq(<<0, 1>>, MoveVal(M, A, B, c))
             THEN MoveLoop_OnZero(M, A \cup {c}, B \ {c})
             ELSE <<A, B>>

\* lines 218-242: move rows from B to A while the largest val is positive
RECURSIVE MoveLoop(_, _, _)
MoveLoop(M, A, B) ==
    IF B = {} THEN <<A, B>>
    ELSE LET c == MoveCandidate(M, A, B)
         IN  IF RLess(<<0, 1>>, MoveVal(M, A, B, c))
             THEN MoveLoop(M, A \cup {c}, B \ {c})
             ELSE <<A, B>>

\* lines 196-244: <<splinter, remainder>> as lists
SplitCluster(M, members) ==
    LET B == SeqToSet(members)
        s == InitialSplinter(M, B)
    IN  IF s = -1 THEN <<<<>>, SetToSeq(B)>>
        ELSE LET ab == MoveLoop(M, {s}, B \ {s})
             IN  <<SetToSeq(ab[1]), SetToSeq(ab[2])>>

\* lines 175-180
SplitAt(M, cl, p) ==
    LET sr == SplitCluster(M, cl[p])
    IN  SubSeq(cl, 1, p - 1) \o SubSeq(cl, p + 1, Len(cl)) \o <<sr[2], sr[1]>>

InitDIANA ==
    /\ alg = "DIANA"
    /\ pc = "constructed"
    /\ X = None
    /\ k \in 0..(MaxK + 1)
    /\ labels = None
    /\ linkage = None
    /\ clusters = None
    /\ broke = FALSE
    /\ NoIter /\ NoKMeans /\ NoKMedoids /\ NoDBSCAN /\ NoKNN /\ NoSplit
    /\ NoMetrics /\ NoPrep /\ NoGNB

\* lines 155-158, on an X of at most maxRows rows
DIANAFitOn(maxRows) ==
    /\ alg = "DIANA" /\ pc = "constructed"
    /\ \E M \in Matrices(maxRows) :
        /\ X' = M
        /\ clusters' = <<[p \in 1..NRows(M) |-> p - 1]>>
    /\ pc' = "loop"
    /\ UNCHANGED <<alg, k, labels, linkage, broke>>
    /\ UNCHANGED <<iterVars, kmeansVars, kmedoidsVars, dbscanVars, y, knnVars, splitVars, metricsVars, prepVars, gnbVars>>

\* lines 160-180, one pass of the while loop
DIANAStep ==
    /\ alg = "DIANA" /\ pc = "loop" /\ Len(clusters) < k
    /\ IF SplitIdx(X, clusters) = 0
       THEN \* split_idx == -1: break
            /\ broke' = TRUE
            /\ pc' = "labelling"
            /\ UNCHANGED clusters
       ELSE /\ clusters' = SplitAt(X, clusters, SplitIdx(X, clusters))
            /\ UNCHANGED <<pc, broke>>
    /\ UNCHANGED <<alg, X, k, labels, linkage>>
    /\ UNCHANGED <<iterVars, kmeansVars, kmedoidsVars, dbscanVars, y, knnVars, splitVars, metricsVars, prepVars, gnbVars>>

\* lines 182-187
DIANAReturn ==
    /\ alg = "DIANA"
    /\ pc = "labelling" \/ (pc = "loop" /\ Len(clusters) >= k)
    /\ labels' = LabelsOf(X, clusters)
    /\ pc' = "done"
    /\ UNCHANGED <<alg, X, k, hierVars>>
    /\ UNCHANGED <<iterVars, kmeansVars, kmedoidsVars, dbscanVars, y, knnVars, splitVars, metricsVars, prepVars, gnbVars>>

DIANAFit == DIANAFitOn(MaxN)

\* the most rows of an X of DIANA alone: enough for two clusters of two rows
MaxNSplit == 4

DIANAFitWide == DIANAFitOn(MaxNSplit)

NextDIANA == DIANAFit \/ DIANAStep \/ DIANAReturn

NextDIANAWide == DIANAFitWide \/ DIANAStep \/ DIANAReturn

\* DIANA alone, on inputs of up to MaxNSplit rows
SpecDIANAWide == InitDIANA /\ [][NextDIANAWide]_vars

SpecDIANA == InitDIANA /\ [][NextDIANA]_vars

\* AGNES and DIANA, the two classes that keep a list of clusters
InitHierarchical == InitAGNES \/ InitDIANA
NextHierarchical == NextAGNES \/ NextDIANA
SpecHierarchical == InitHierarchical /\ [][NextHierarchical]_vars

\* ------------------------------------------------------------------ DBSCAN
\* seeded fault: the radius one too wide
RegionQuery_Wide(M, idx, e) == SetToSeq({r \in Rows(M) : Norm(M[r], M[idx]) <= e + 1})

\* lines 290-292: the rows within eps of the row idx, in index order
RegionQuery(M, idx, e) == SetToSeq({r \in Rows(M) : Norm(M[r], M[idx]) <= e})

\* seeded fault: the neighbours of a core row are not added to the list
Extended_None(neighbors, new_neighbors) == neighbors

\* line 284: neighbors + [n for n in new_neighbors if n not in neighbors]
Extended(neighbors, new_neighbors) ==
    neighbors \o SelectSeq(new_neighbors, LAMBDA n : n \notin SeqToSet(neighbors))

\* seeded fault: only a row visited for the first time is labelled, so a row already visited
\* and labelled noise stays noise
ExpandAt_NoRelabel(M, e, ms, neighbors, pos, lab, vis, cid) ==
    LET nb == neighbors[pos]
        grown == IF ~vis[nb] /\ Len(RegionQuery(M, nb, e)) >= ms
                 THEN Extended(neighbors, RegionQuery(M, nb, e))
                 ELSE neighbors
    IN  <<grown,
          IF ~vis[nb] /\ lab[nb] = -1 THEN [lab EXCEPT ![nb] = cid] ELSE lab,
          [vis EXCEPT ![nb] = TRUE]>>

\* lines 280-287, the body of the while loop at neighbors[pos]: <<neighbors, labels, visited>>
ExpandAt(M, e, ms, neighbors, pos, lab, vis, cid) ==
    LET nb == neighbors[pos]
        grown == IF ~vis[nb] /\ Len(RegionQuery(M, nb, e)) >= ms
                 THEN Extended(neighbors, RegionQuery(M, nb, e))
                 ELSE neighbors
    IN  <<grown,
          IF lab[nb] = -1 THEN [lab EXCEPT ![nb] = cid] ELSE lab,
          [vis EXCEPT ![nb] = TRUE]>>

\* lines 276-288: <<labels, visited>> when the while loop ends
RECURSIVE ExpandCluster(_, _, _, _, _, _, _, _)
ExpandCluster(M, e, ms, neighbors, pos, lab, vis, cid) ==
    IF pos > Len(neighbors) THEN <<lab, vis>>
    ELSE LET st == ExpandAt(M, e, ms, neighbors, pos, lab, vis, cid)
         IN  ExpandCluster(M, e, ms, st[1], pos + 1, st[2], st[3], cid)

\* seeded fault: the test of line 267 reversed, so a row of many neighbours is noise
ScanPass_Flipped(M, e, ms, st, i) ==
    IF st.visited[i] THEN st
    ELSE LET vis == [st.visited EXCEPT ![i] = TRUE]
             neighbors == RegionQuery(M, i, e)
         IN  IF Len(neighbors) > ms
             THEN [st EXCEPT !.visited = vis, !.labels[i] = -1, !.noised = @ \cup {i}]
             ELSE LET ex == ExpandCluster(M, e, ms, neighbors, 1,
                                          [st.labels EXCEPT ![i] = st.cluster_id], vis,
                                          st.cluster_id)
                  IN  [st EXCEPT !.labels = ex[1], !.visited = ex[2],
                                 !.cluster_id = @ + 1]

\* lines 261-272, one pass of the for loop at row i
ScanPass(M, e, ms, st, i) ==
    IF st.visited[i] THEN st
    ELSE LET vis == [st.visited EXCEPT ![i] = TRUE]
             neighbors == RegionQuery(M, i, e)
         IN  IF Len(neighbors) < ms
             THEN [st EXCEPT !.visited = vis, !.labels[i] = -1, !.noised = @ \cup {i}]
             ELSE LET ex == ExpandCluster(M, e, ms, neighbors, 1,
                                          [st.labels EXCEPT ![i] = st.cluster_id], vis,
                                          st.cluster_id)
                  IN  [st EXCEPT !.labels = ex[1], !.visited = ex[2],
                                 !.cluster_id = @ + 1]

\* lines 254-258
ScanStart(M) ==
    [labels |-> [r \in Rows(M) |-> -1], visited |-> [r \in Rows(M) |-> FALSE],
     cluster_id |-> 0, noised |-> {}]

\* lines 253-274 as a function of its inputs: the labels fit returns
RECURSIVE ScanFrom(_, _, _, _, _)
ScanFrom(M, e, ms, st, i) ==
    IF i >= NRows(M) THEN st.labels
    ELSE ScanFrom(M, e, ms, ScanPass(M, e, ms, st, i), i + 1)

DBSCANLabels(M, e, ms) == ScanFrom(M, e, ms, ScanStart(M), 0)

InitDBSCAN ==
    /\ alg = "DBSCAN"
    /\ pc = "constructed"
    /\ X = None
    /\ k = None
    /\ labels = None
    /\ eps \in 0..MaxEps
    /\ min_samples \in 1..MaxMinSamples
    /\ visited = None /\ cluster_id = None /\ scan_i = None /\ noised = {}
    /\ NoIter /\ NoKMeans /\ NoKMedoids /\ NoHier /\ NoKNN /\ NoSplit
    /\ NoMetrics /\ NoPrep /\ NoGNB

\* lines 254-258
DBSCANFit ==
    /\ alg = "DBSCAN" /\ pc = "constructed"
    /\ \E M \in Matrices(MaxN) :
        /\ X' = M
        /\ labels' = ScanStart(M).labels
        /\ visited' = ScanStart(M).visited
        /\ cluster_id' = ScanStart(M).cluster_id
        /\ noised' = ScanStart(M).noised
    /\ scan_i' = 0
    /\ pc' = "loop"
    /\ UNCHANGED <<alg, k, eps, min_samples>>
    /\ UNCHANGED <<iterVars, kmeansVars, kmedoidsVars, hierVars, y, knnVars, splitVars, metricsVars, prepVars, gnbVars>>

\* lines 260-274, one pass of the for loop (and the return after the last one)
DBSCANScan ==
    /\ alg = "DBSCAN" /\ pc = "loop" /\ scan_i < NRows(X)
    /\ LET st == ScanPass(X, eps, min_samples,
                          [labels |-> labels, visited |-> visited,
                           cluster_id |-> cluster_id, noised |-> noised], scan_i)
       IN  /\ labels' = st.labels
           /\ visited' = st.visited
           /\ cluster_id' = st.cluster_id
           /\ noised' = st.noised
    /\ scan_i' = scan_i + 1
    /\ pc' = IF scan_i + 1 = NRows(X) THEN "done" ELSE "loop"
    /\ UNCHANGED <<alg, X, k, eps, min_samples>>
    /\ UNCHANGED <<iterVars, kmeansVars, kmedoidsVars, hierVars, y, knnVars, splitVars, metricsVars, prepVars, gnbVars>>

NextDBSCAN == DBSCANFit \/ DBSCANScan

SpecDBSCAN == InitDBSCAN /\ [][NextDBSCAN]_vars

\* the five clustering classes
InitClustering == InitKMeans \/ InitKMedoids \/ InitAGNES \/ InitDIANA \/ InitDBSCAN
NextClustering == NextKMeans \/ NextKMedoids \/ NextAGNES \/ NextDIANA \/ NextDBSCAN
SpecClustering == InitClustering /\ [][NextClustering]_vars

\* --------------------------------------------------------------------- KNN
\* seeded fault: the sort descending, so the k farthest rows are taken
NearestSets_Farthest(T, x, kk) ==
    {S \in SUBSET Rows(T) :
        /\ Cardinality(S) = (IF kk < NRows(T) THEN kk ELSE NRows(T))
        /\ \A a \in S : \A b \in Rows(T) \ S : SqDist(T[a], x) >= SqDist(T[b], x)}

\* the sets np.argsort(distances)[:k] can be: k rows (all of them when there are fewer),
\* none of them farther than a row left out; rows at equal distance come in the order
\* the sort leaves them in, and the default sort of np.argsort is not stable
NearestSets(T, x, kk) ==
    {S \in SUBSET Rows(T) :
        /\ Cardinality(S) = (IF kk < NRows(T) THEN kk ELSE NRows(T))
        /\ \A a \in S : \A b \in Rows(T) \ S : SqDist(T[a], x) <= SqDist(T[b], x)}

\* lines 397-400: the label of the most rows of S, the least such label on a tie
MajorityLabel(yt, S) ==
    LET count(l) == Cardinality({r \in S : yt[r] = l})
        present == {yt[r] : r \in S}
    IN  CHOOSE l \in present :
            \A o \in present :
                /\ count(l) >= count(o)
                /\ o < l => count(l) > count(o)

\* lines 391-402: what predict can return for the rows of Q
Predictions(T, yt, kk, Q) ==
    {p \in [Rows(Q) -> {yt[r] : r \in Rows(T)}] :
        \A q \in Rows(Q) : \E S \in NearestSets(T, Q[q], kk) : p[q] = MajorityLabel(yt, S)}

Labelings(M) == [Rows(M) -> 0..MaxLabel]

InitKNN ==
    /\ alg = "KNN"
    /\ pc = "constructed"
    /\ X = None /\ y = None
    /\ k \in 1..(MaxK + 1)
    /\ labels = None
    /\ X_train = None /\ y_train = None /\ X_query = None /\ predictions = None
    /\ NoIter /\ NoKMeans /\ NoKMedoids /\ NoHier /\ NoDBSCAN /\ NoSplit
    /\ NoMetrics /\ NoPrep /\ NoGNB

\* lines 384-386
KNNFit ==
    /\ alg = "KNN" /\ pc = "constructed"
    /\ \E M \in Matrices(MaxTrain) : \E yy \in Labelings(M) :
        /\ X' = M /\ y' = yy
        /\ X_train' = M /\ y_train' = yy
    /\ pc' = "fitted"
    /\ UNCHANGED <<alg, k, labels, X_query, predictions>>
    /\ UNCHANGED <<iterVars, kmeansVars, kmedoidsVars, hierVars, dbscanVars, splitVars, metricsVars, prepVars, gnbVars>>

\* lines 388-402, on the training matrix or on a matrix of one row
KNNPredict ==
    /\ alg = "KNN" /\ pc \in {"fitted", "predicted"}
    /\ \E Q \in {X_train} \cup Matrices(1) :
        /\ X_query' = Q
        /\ predictions' \in Predictions(X_train, y_train, k, Q)
    /\ pc' = "predicted"
    /\ UNCHANGED <<alg, X, k, labels, y, X_train, y_train>>
    /\ UNCHANGED <<iterVars, kmeansVars, kmedoidsVars, hierVars, dbscanVars, splitVars, metricsVars, prepVars, gnbVars>>

NextKNN == KNNFit \/ KNNPredict

SpecKNN == InitKNN /\ [][NextKNN]_vars

\* -------------------------------------------------------- train_test_split
\* the values of test_size tried, rationals in [0, 1] (0.2 is the default)
TestSizes == {<<0, 1>>, <<1, 5>>, <<1, 4>>, <<1, 2>>, <<3, 4>>, <<1, 1>>}

\* np.random.permutation(n_samples), as a list
IndexPermutations(n) ==
    {[p \in 1..n |-> f[p - 1]] : f \in Choices(n, n)}

\* seeded fault: rounded up
NTest_Ceil(n, ts) == (n * ts[1] + ts[2] - 1) \div ts[2]

\* line 367: int(n_samples * test_size)
NTest(n, ts) == (n * ts[1]) \div ts[2]

\* line 370: indices[:n_test]
TestIndices(ind, nt) == SubSeq(ind, 1, nt)

\* seeded fault: the slice starts one place early
TrainIndices_Overlap(ind, nt) == SubSeq(ind, IF nt = 0 THEN 1 ELSE nt, Len(ind))

\* line 371: indices[n_test:]
TrainIndices(ind, nt) == SubSeq(ind, nt + 1, Len(ind))

\* A[idx] for a list of row indices
Take(A, idx) == [p \in DOMAIN idx |-> A[idx[p]]]

InitSplit ==
    /\ alg = "train_test_split"
    /\ pc = "constructed"
    /\ X = None /\ y = None /\ k = None /\ labels = None
    /\ test_size = None /\ n_test = None /\ indices = None /\ split = None
    /\ X_train = None /\ y_train = None /\ X_query = None /\ predictions = None
    /\ NoIter /\ NoKMeans /\ NoKMedoids /\ NoHier /\ NoDBSCAN
    /\ NoMetrics /\ NoPrep /\ NoGNB

\* lines 362-373
TrainTestSplit ==
    /\ alg = "train_test_split" /\ pc = "constructed"
    /\ \E M \in Matrices(MaxTrain) : \E yy \in Labelings(M) : \E ts \in TestSizes :
        /\ X' = M /\ y' = yy /\ test_size' = ts
        /\ n_test' = NTest(NRows(M), ts)
        /\ indices' \in IndexPermutations(NRows(M))
        /\ split' = [train_indices |-> TrainIndices(indices', n_test'),
                     test_indices |-> TestIndices(indices', n_test'),
                     X_train |-> Take(M, TrainIndices(indices', n_test')),
                     X_test |-> Take(M, TestIndices(indices', n_test')),
                     y_train |-> Take(yy, TrainIndices(indices', n_test')),
                     y_test |-> Take(yy, TestIndices(indices', n_test'))]
    /\ pc' = "done"
    /\ UNCHANGED <<alg, k, labels, knnVars>>
    /\ UNCHANGED <<iterVars, kmeansVars, kmedoidsVars, hierVars, dbscanVars, metricsVars, prepVars, gnbVars>>

NextSplit == TrainTestSplit

SpecSplit == InitSplit /\ [][NextSplit]_vars

\* ----------------------------------------------------------------- metrics
\* more of the rationals; the pair <<0, 0>> is nan, what float64 gives for 0.0 / 0
RAdd(a, b) == <<a[1] * b[2] + b[1] * a[2], a[2] * b[2]>>
RMul(a, b) == <<a[1] * b[1], a[2] * b[2]>>
RDiv(a, b) == <<a[1] * b[2], a[2] * b[1]>>
IsNaN(a) == a[2] = 0

RECURSIVE SumSeq(_)
SumSeq(s) == IF s = <<>> THEN 0 ELSE Head(s) + SumSeq(Tail(s))

RECURSIVE RSum(_)
RSum(s) == IF s = <<>> THEN <<0, 1>> ELSE RAdd(Head(s), RSum(Tail(s)))

\* np.mean of a list of rationals: the sum over the length, nan for the empty list
RMean(s) == <<RSum(s)[1], RSum(s)[2] * Len(s)>>

\* np.sum of a boolean array
CountTrue(b) == SumSeq([p \in DOMAIN b |-> IF b[p] THEN 1 ELSE 0])

\* the label vectors tried: lists of 0..MaxLen labels
LabelVectors == UNION {[1..n -> 0..MaxLabel] : n \in 0..MaxLen}

\* seeded fault: counts the positions where the true label is at most the predicted one
AccuracyOf_Leq(yt, yp) == <<CountTrue([p \in DOMAIN yt |-> yt[p] <= yp[p]]), Len(yt)>>

\* line 458: np.mean(y_true == y_pred)
AccuracyOf(yt, yp) == <<CountTrue([p \in DOMAIN yt |-> yt[p] = yp[p]]), Len(yt)>>

\* np.unique(np.concatenate((y_true, y_pred))): the labels of both, sorted
Classes(yt, yp) == SetToSeq(SeqToSet(yt \o yp))

\* line 464: class_to_idx, the 0-based place of a class in classes
ClassToIdx(classes) ==
    [c \in SeqToSet(classes) |-> (CHOOSE p \in DOMAIN classes : classes[p] = c) - 1]

\* line 463: np.zeros((n_classes, n_classes), dtype=int)
ZeroMatrix(n) == [i \in 0..(n - 1) |-> [j \in 0..(n - 1) |-> 0]]

\* seeded fault: the indices are swapped
Incr_Swapped(m, i, j) == [m EXCEPT ![j][i] = @ + 1]

\* line 467: matrix[i][j] += 1
Incr(m, i, j) == [m EXCEPT ![i][j] = @ + 1]

\* lines 466-467: the loop over zip(y_true, y_pred)
RECURSIVE CountPairs(_, _, _, _)
CountPairs(m, idx, yt, yp) ==
    IF yt = <<>> \/ yp = <<>> THEN m
    ELSE CountPairs(Incr(m, idx[Head(yt)], idx[Head(yp)]), idx, Tail(yt), Tail(yp))

\* lines 460-469
ConfusionMatrixOf(yt, yp) ==
    LET classes == Classes(yt, yp)
    IN  [matrix |-> CountPairs(ZeroMatrix(Len(classes)), ClassToIdx(classes), yt, yp),
         classes |-> classes]

\* np.sum((y_true == c) & (y_pred == c)) and its two neighbours
TruePositives(yt, yp, c) == CountTrue([p \in DOMAIN yt |-> yt[p] = c /\ yp[p] = c])
FalsePositives(yt, yp, c) == CountTrue([p \in DOMAIN yt |-> yt[p] # c /\ yp[p] = c])
FalseNegatives(yt, yp, c) == CountTrue([p \in DOMAIN yt |-> yt[p] = c /\ yp[p] # c])

\* lines 476-481: the precision of one class
ClassPrecision(yt, yp, c) ==
    IF TruePositives(yt, yp, c) + FalsePositives(yt, yp, c) > 0
    THEN <<TruePositives(yt, yp, c), TruePositives(yt, yp, c) + FalsePositives(yt, yp, c)>>
    ELSE <<0, 1>>

\* lines 492-497: the recall of one class
ClassRecall(yt, yp, c) ==
    IF TruePositives(yt, yp, c) + FalseNegatives(yt, yp, c) > 0
    THEN <<TruePositives(yt, yp, c), TruePositives(yt, yp, c) + FalseNegatives(yt, yp, c)>>
    ELSE <<0, 1>>

\* lines 509-512: the F1 of one class from its precision p and recall r
ClassF1(p, r) ==
    IF RLess(<<0, 1>>, RAdd(p, r))
    THEN RDiv(RMul(<<2, 1>>, RMul(p, r)), RAdd(p, r))
    ELSE <<0, 1>>

Precisions(yt, yp) ==
    [p \in DOMAIN Classes(yt, yp) |-> ClassPrecision(yt, yp, Classes(yt, yp)[p])]

Recalls(yt, yp) ==
    [p \in DOMAIN Classes(yt, yp) |-> ClassRecall(yt, yp, Classes(yt, yp)[p])]

\* zip(precisions, recalls)
F1s(yt, yp) ==
    [p \in DOMAIN Classes(yt, yp) |-> ClassF1(Precisions(yt, yp)[p], Recalls(yt, yp)[p])]

\* lines 483-485, 499-501, 514-516: the mean for average='macro', else the list
Averaged(scores, avg) == IF avg = "macro" THEN RMean(scores) ELSE scores

\* the values of average tried ('macro' is the default)
Averages == {"macro", None}

MetricNames ==
    {"accuracy_score", "confusion_matrix", "precision_score", "recall_score", "f1_score"}

\* before the call of a metric
InitMetrics ==
    /\ alg \in MetricNames
    /\ pc = "constructed"
    /\ X = None /\ k = None /\ labels = None
    /\ NoIter /\ NoKMeans /\ NoKMedoids /\ NoHier /\ NoDBSCAN /\ NoKNN /\ NoSplit
    /\ NoMetrics /\ NoPrep /\ NoGNB

\* the call metric(y_true, y_pred, average) that returns res
Returns(yt, yp, avg, res) ==
    /\ y_true' = yt /\ y_pred' = yp /\ average' = avg /\ result' = res
    /\ pc' = "done"
    /\ UNCHANGED <<alg, X, k, labels>>
    /\ UNCHANGED <<iterVars, kmeansVars, kmedoidsVars, hierVars, dbscanVars, y, knnVars,
                   splitVars, prepVars, gnbVars>>

\* lines 457-458
AccuracyScore ==
    /\ alg = "accuracy_score" /\ pc = "constructed"
    /\ \E yt \in LabelVectors : \E yp \in [DOMAIN yt -> 0..MaxLabel] :
           Returns(yt, yp, None, AccuracyOf(yt, yp))

\* lines 460-469
ConfusionMatrix ==
    /\ alg = "confusion_matrix" /\ pc = "constructed"
    /\ \E yt \in LabelVectors : \E yp \in [DOMAIN yt -> 0..MaxLabel] :
           Returns(yt, yp, None, ConfusionMatrixOf(yt, yp))

\* lines 471-485
PrecisionScore ==
    /\ alg = "precision_score" /\ pc = "constructed"
    /\ \E yt \in LabelVectors : \E yp \in [DOMAIN yt -> 0..MaxLabel] : \E avg \in Averages :
           Returns(yt, yp, avg, Averaged(Precisions(yt, yp), avg))

\* lines 487-501
RecallScore ==
    /\ alg = "recall_score" /\ pc = "constructed"
    /\ \E yt \in LabelVectors : \E yp \in [DOMAIN yt -> 0..MaxLabel] : \E avg \in Averages :
           Returns(yt, yp, avg, Averaged(Recalls(yt, yp), avg))

\* lines 503-516
F1Score ==
    /\ alg = "f1_score" /\ pc = "constructed"
    /\ \E yt \in LabelVectors : \E yp \in [DOMAIN yt -> 0..MaxLabel] : \E avg \in Averages :
           Returns(yt, yp, avg, Averaged(F1s(yt, yp), avg))

NextMetrics == AccuracyScore \/ ConfusionMatrix \/ PrecisionScore \/ RecallScore \/ F1Score

SpecMetrics == InitMetrics /\ [][NextMetrics]_vars

\* ----------------------------------------------------------- preprocessing
\* A cell of a preprocessing matrix is a rational, <<v, 1>> for the value v, or nan (a
\* missing entry); a row is the tuple of its cells, one per column.
NaN == <<0, 0>>
Cols == 1..NumCols
PresentCells == {<<v, 1>> : v \in 0..MaxCell}

\* the matrices of 1..maxRows rows with cells from the given set
PrepMatrices(cells, maxRows) == UNION {[0..(n - 1) -> [Cols -> cells]] : n \in 1..maxRows}

RSub(a, b) == <<a[1] * b[2] - b[1] * a[2], a[2] * b[2]>>

\* the rows of M whose cell in column c is not missing
PresentRows(M, c) == {r \in Rows(M) : ~IsNaN(M[r][c])}

HasMissing(M) == \E r \in Rows(M) : \E c \in Cols : IsNaN(M[r][c])

\* np.nanmean(X, axis=0)[c]: the mean of the present cells, nan when there is none
NanMean(M, c) ==
    <<SumFn([r \in PresentRows(M, c) |-> M[r][c][1]]), Cardinality(PresentRows(M, c))>>

\* the values of a function on rows, as a sorted list
RECURSIVE SortedValues(_)
SortedValues(f) ==
    IF DOMAIN f = {} THEN <<>>
    ELSE LET r == CHOOSE r \in DOMAIN f : \A o \in DOMAIN f : f[r] <= f[o]
         IN  <<f[r]>> \o SortedValues([z \in (DOMAIN f) \ {r} |-> f[z]])

\* np.nanmedian(X, axis=0)[c]: the middle of the sorted present cells (the mean of the
\* two middle ones when their number is even), nan when there is none
NanMedian(M, c) ==
    LET s == SortedValues([r \in PresentRows(M, c) |-> M[r][c][1]])
        n == Len(s)
    IN  IF n = 0 THEN NaN
        ELSE IF n % 2 = 1 THEN <<s[(n + 1) \div 2], 1>>
        ELSE <<s[n \div 2] + s[n \div 2 + 1], 2>>

\* the strategies tried: the two the class knows and one it does not
Strategies == {"mean", "median", "most_frequent"}
KnownStrategies == {"mean", "median"}

\* lines 304-307: what fit stores in self.stats_
ImputerStats(M, strat) ==
    [c \in Cols |-> IF strat = "mean" THEN NanMean(M, c) ELSE NanMedian(M, c)]

\* seeded fault: every cell is replaced by the statistic
Filled_All(Q, stats) == [r \in Rows(Q) |-> [c \in Cols |-> stats[c]]]

\* lines 311-316: the copy of Q with the missing cells of column c set to stats[c]
Filled(Q, stats) ==
    [r \in Rows(Q) |-> [c \in Cols |-> IF IsNaN(Q[r][c]) THEN stats[c] ELSE Q[r][c]]]

\* np.min(X, axis=0)[c] and np.max(X, axis=0)[c]
ColMin(M, c) == <<MinOf({M[r][c][1] : r \in Rows(M)}), 1>>
ColMax(M, c) == <<MaxOf({M[r][c][1] : r \in Rows(M)}), 1>>

\* seeded fault: the range is the maximum
ColRange_Max(M, c) == IF ColMax(M, c)[1] = 0 THEN <<1, 1>> ELSE ColMax(M, c)

\* lines 330-332: max - min, and 1.0 where that is 0
ColRange(M, c) ==
    IF RSub(ColMax(M, c), ColMin(M, c))[1] = 0 THEN <<1, 1>>
    ELSE RSub(ColMax(M, c), ColMin(M, c))

\* seeded fault: the minimum is not subtracted
MinMaxCell_NoShift(x, mn, rg) == RDiv(x, rg)

\* line 336: (X - self.min_) / self.range_, one cell
MinMaxCell(x, mn, rg) == RDiv(RSub(x, mn), rg)

\* np.mean(X, axis=0)[c]
ColMean(M, c) == <<SumFn([r \in Rows(M) |-> M[r][c][1]]), NRows(M)>>

\* the square of np.std(X, axis=0)[c]: the mean of the squared deviations from the mean
ColVariance(M, c) ==
    LET n == NRows(M)
        S == SumFn([r \in Rows(M) |-> M[r][c][1]])
    IN  <<SumFn([r \in Rows(M) |-> (n * M[r][c][1] - S) * (n * M[r][c][1] - S)]), n * n * n>>

\* lines 349-350: self.std_[c], kept as its square; 1.0 where it is 0
ColStdSquared(M, c) == IF ColVariance(M, c)[1] = 0 THEN <<1, 1>> ELSE ColVariance(M, c)

\* line 354: (X - self.mean_) / self.std_, one cell: the number d / sqrt(s2)
StandardCell(x, mean, stdsq) == [d |-> RSub(x, mean), s2 |-> stdsq]

PrepClasses == {"SimpleImputer", "MinMaxScaler", "StandardScaler"}

InitPrep ==
    /\ alg \in PrepClasses
    /\ pc = "constructed"
    /\ X = None /\ k = None /\ labels = None
    /\ strategy \in (IF alg = "SimpleImputer" THEN Strategies ELSE {None})
    /\ stats_ = None /\ min_ = None /\ max_ = None /\ range_ = None
    /\ mean_ = None /\ std_ = None /\ X_arg = None /\ X_after = None /\ X_new = None
    /\ NoIter /\ NoKMeans /\ NoKMedoids /\ NoHier /\ NoDBSCAN /\ NoKNN /\ NoSplit
    /\ NoMetrics /\ NoGNB

\* what no method of the preprocessing classes touches
PrepFrame ==
    /\ UNCHANGED <<alg, k, labels, strategy>>
    /\ UNCHANGED <<iterVars, kmeansVars, kmedoidsVars, hierVars, dbscanVars, y, knnVars,
                   splitVars, metricsVars, gnbVars>>

\* lines 302-308: a strategy that is neither 'mean' nor 'median' stores nothing
ImputerFit ==
    /\ alg = "SimpleImputer" /\ pc = "constructed"
    /\ \E M \in PrepMatrices(PresentCells \cup {NaN}, MaxPrepRows) :
        /\ X' = M
        /\ IF strategy \in KnownStrategies
           THEN stats_' = ImputerStats(M, strategy)
           ELSE UNCHANGED stats_
    /\ pc' = "fitted"
    /\ UNCHANGED <<min_, max_, range_, mean_, std_, X_arg, X_after, X_new>>
    /\ PrepFrame

\* the arguments of transform tried: the matrix fit was given (fit_transform) and the
\* matrices of one row
TransformInputs(cells) ==
    (IF pc = "fitted" THEN {X} ELSE {}) \cup PrepMatrices(cells, 1)

\* lines 310-316; self.stats_[i] of None raises TypeError
ImputerTransform ==
    /\ alg = "SimpleImputer" /\ pc \in {"constructed", "fitted"}
    /\ \E Q \in TransformInputs(PresentCells \cup {NaN}) :
        /\ X_arg' = Q /\ X_after' = Q
        /\ IF HasMissing(Q) /\ ~(pc = "fitted" /\ strategy \in KnownStrategies)
           THEN pc' = "error" /\ UNCHANGED X_new
           ELSE /\ pc' = "transformed"
                /\ X_new' = IF HasMissing(Q) THEN Filled(Q, stats_) ELSE Q
    /\ UNCHANGED <<X, stats_, min_, max_, range_, mean_, std_>>
    /\ PrepFrame

\* lines 327-333
MinMaxFit ==
    /\ alg = "MinMaxScaler" /\ pc = "constructed"
    /\ \E M \in PrepMatrices(PresentCells, MaxPrepRows) :
        /\ X' = M
        /\ min_' = [c \in Cols |-> ColMin(M, c)]
        /\ max_' = [c \in Cols |-> ColMax(M, c)]
        /\ range_' = [c \in Cols |-> ColRange(M, c)]
    /\ pc' = "fitted"
    /\ UNCHANGED <<stats_, mean_, std_, X_arg, X_after, X_new>>
    /\ PrepFrame

\* lines 335-336; X - None raises TypeError
MinMaxTransform ==
    /\ alg = "MinMaxScaler" /\ pc \in {"constructed", "fitted"}
    /\ \E Q \in TransformInputs(PresentCells) :
        /\ X_arg' = Q /\ X_after' = Q
        /\ IF pc = "constructed"
           THEN pc' = "error" /\ UNCHANGED X_new
           ELSE /\ pc' = "transformed"
                /\ X_new' = [r \in Rows(Q) |->
                                [c \in Cols |-> MinMaxCell(Q[r][c], min_[c], range_[c])]]
    /\ UNCHANGED <<X, stats_, min_, max_, range_, mean_, std_>>
    /\ PrepFrame

\* lines 347-351
StandardFit ==
    /\ alg = "StandardScaler" /\ pc = "constructed"
    /\ \E M \in PrepMatrices(PresentCells, MaxPrepRows) :
        /\ X' = M
        /\ mean_' = [c \in Cols |-> ColMean(M, c)]
        /\ std_' = [c \in Cols |-> ColStdSquared(M, c)]
    /\ pc' = "fitted"
    /\ UNCHANGED <<stats_, min_, max_, range_, X_arg, X_after, X_new>>
    /\ PrepFrame

\* lines 353-354; X - None raises TypeError
StandardTransform ==
    /\ alg = "StandardScaler" /\ pc \in {"constructed", "fitted"}
    /\ \E Q \in TransformInputs(PresentCells) :
        /\ X_arg' = Q /\ X_after' = Q
        /\ IF pc = "constructed"
           THEN pc' = "error" /\ UNCHANGED X_new
           ELSE /\ pc' = "transformed"
                /\ X_new' = [r \in Rows(Q) |->
                                [c \in Cols |-> StandardCell(Q[r][c], mean_[c], std_[c])]]
    /\ UNCHANGED <<X, stats_, min_, max_, range_, mean_, std_>>
    /\ PrepFrame

NextPrep ==
    \/ ImputerFit \/ ImputerTransform
    \/ MinMaxFit \/ MinMaxTransform
    \/ StandardFit \/ StandardTransform

SpecPrep == InitPrep /\ [][NextPrep]_vars

\* ------------------------------------------------------------------ claims
ClusteringClasses == {"KMeans", "KMedoids", "AGNES", "DIANA", "DBSCAN"}

\* the configurations the specification calls valid: a cluster count between 1 and the
\* number of rows and, for the two iterative classes, at least one pass of the loop
ValidConfig ==
    /\ alg \in {"KMeans", "KMedoids", "AGNES", "DIANA"} => (1 <= k /\ k <= NRows(X))
    /\ alg \in {"KMeans", "KMedoids"} => max_iters >= 1

\* C1: for every valid input, fit of each of the five clustering classes returns a label
\* for each of the N rows, and every label is -1 or lies in [0, k) (for DBSCAN: in
\* [0, the number of clusters found)).
C1_LabelsInRange ==
    (alg \in ClusteringClasses /\ pc = "done" /\ ValidConfig) =>
        /\ DOMAIN labels = Rows(X)
        /\ \A r \in Rows(X) :
            \/ labels[r] = -1
            \/ /\ 0 <= labels[r]
               /\ labels[r] < (IF alg = "DBSCAN"
                               THEN Cardinality({labels[q] : q \in Rows(X)} \ {-1})
                               ELSE k)

\* a DBSCAN run that found a cluster and left a row as noise
C1_Witness ==
    /\ alg = "DBSCAN" /\ pc = "done"
    /\ \E r, q \in Rows(X) : labels[r] = -1 /\ labels[q] = 0

\* the groups are not empty, hold no row twice, are pairwise disjoint, and hold the rows
\* 0..n-1 between them
IsPartition(cl, n) ==
    /\ \A p \in DOMAIN cl : Len(cl[p]) > 0 /\ Cardinality(SeqToSet(cl[p])) = Len(cl[p])
    /\ \A p, q \in DOMAIN cl : p # q => SeqToSet(cl[p]) \cap SeqToSet(cl[q]) = {}
    /\ SumFn([p \in DOMAIN cl |-> Len(cl[p])]) = n
    /\ UNION {SeqToSet(cl[p]) : p \in DOMAIN cl} = 0..(n - 1)

\* C2: in AGNES.fit and DIANA.fit the list of clusters is a partition of the rows after
\* every merge or split and on return; on return, for a cluster count of at least 1 (and
\* for AGNES at most N, where there is something to merge), there are exactly k groups,
\* or fewer when the loop was left by its break.
C2_Partition ==
    (alg \in {"AGNES", "DIANA"} /\ pc \in {"loop", "labelling", "done"}) =>
        /\ IsPartition(clusters, NRows(X))
        /\ (pc = "done" /\ k >= 1 /\ (alg = "AGNES" => k <= NRows(X))) =>
            \/ Len(clusters) = k
            \/ Len(clusters) < k /\ broke

\* DIANA returned k groups, one of them of several rows, after a split
C2_Witness ==
    /\ alg = "DIANA" /\ pc = "done" /\ k >= 2 /\ Len(clusters) = k
    /\ \E p \in DOMAIN clusters : Len(clusters[p]) >= 2

\* the row c has at least min_samples rows within eps, itself counted
IsCore(c) == Cardinality({q \in Rows(X) : Norm(X[q], X[c]) <= eps}) >= min_samples

NearCore(r) == \E c \in Rows(X) : IsCore(c) /\ Norm(X[r], X[c]) <= eps

\* C3: when DBSCAN.fit returns, a row is labelled -1 exactly when it is no core point and
\* no core point lies within eps of it; a row the scan labelled noise has a cluster id
\* when a core point has it within eps.
C3_NoiseIffUnreachable ==
    (alg = "DBSCAN" /\ pc = "done") =>
        /\ \A r \in Rows(X) : labels[r] = -1 <=> ~NearCore(r)
        /\ \A r \in noised : NearCore(r) => labels[r] # -1

\* a run in which a row the scan labelled noise was relabelled by a core point visited
\* later in the scan
C3_Witness ==
    /\ alg = "DBSCAN" /\ pc = "done"
    /\ \E r \in noised : labels[r] # -1 /\ \E c \in Rows(X) : c > r /\ IsCore(c)

\* C4: in KMeans.fit the sum of squared distances of the rows to their assigned
\* centroids, taken after the assignment step of each pass, never increases from one
\* pass to the next, passes that reseeded an empty cluster included.
C4_InertiaNonIncreasing ==
    alg = "KMeans" =>
        \A t \in 1..(Len(inertia) - 1) : RLeq(inertia[t + 1], inertia[t])

\* a run whose first pass reseeded an empty cluster and whose second pass lowered the sum
C4_Witness ==
    /\ alg = "KMeans" /\ 1 \in reseeds /\ Len(inertia) >= 2
    /\ RLess(inertia[2], inertia[1])

\* C5 as stated, for 2 <= k <= N: in KMedoids.fit the sum of squared distances to the
\* assigned medoids never increases from one pass to the next.
C5_SquaredNonIncreasing ==
    (alg = "KMedoids" /\ pc \in {"loop", "done"} /\ 2 <= k /\ k <= NRows(X)) =>
        \A t \in 1..(Len(inertia) - 1) : inertia[t + 1] <= inertia[t]

\* C5 amended: in KMedoids.fit the sum of the distances (not squared) of the rows to
\* their assigned medoids never increases from one pass to the next.
C5_TotalDistNonIncreasing ==
    alg = "KMedoids" =>
        \A t \in 1..(Len(total_dist) - 1) : total_dist[t + 1] <= total_dist[t]

\* a run of two passes, of two clusters, in which the sum of distances fell
C5_Witness ==
    /\ alg = "KMedoids" /\ k >= 2 /\ Len(total_dist) >= 2
    /\ total_dist[2] < total_dist[1]

NonNoise(lab) == Cardinality({r \in DOMAIN lab : lab[r] # -1})

\* C6: for the same X and eps, fit with a larger min_samples never gives more rows a
\* label other than -1 than fit with a smaller min_samples.
C6_MinSamplesMonotone ==
    (alg = "DBSCAN" /\ pc = "done") =>
        \A ms \in 1..MaxMinSamples :
            ms >= min_samples => NonNoise(DBSCANLabels(X, eps, ms)) <= NonNoise(labels)

\* a run that labelled some rows, of which a larger min_samples labels fewer, but not none
C6_Witness ==
    /\ alg = "DBSCAN" /\ pc = "done"
    /\ \E ms \in 1..MaxMinSamples :
        /\ ms > min_samples
        /\ NonNoise(DBSCANLabels(X, eps, ms)) < NonNoise(labels)
        /\ NonNoise(DBSCANLabels(X, eps, ms)) > 0

DistinctRows(M) == \A a, b \in Rows(M) : a # b => M[a] # M[b]

\* C7: with eps = 0 and no two rows of X equal, DBSCAN.fit puts no two rows in one
\* cluster: every row is noise or the only row of its cluster.
C7_EpsZeroSingletons ==
    (alg = "DBSCAN" /\ pc = "done" /\ eps = 0 /\ DistinctRows(X)) =>
        \A r, q \in Rows(X) : r # q => (labels[r] = -1 \/ labels[r] # labels[q])

\* a run with eps = 0 on three or more distinct rows, each its own cluster
C7_Witness ==
    /\ alg = "DBSCAN" /\ pc = "done" /\ eps = 0 /\ DistinctRows(X) /\ NRows(X) >= 3
    /\ \A r \in Rows(X) : labels[r] # -1

\* predict was called on the training matrix
PredictedOnTraining == alg = "KNN" /\ pc = "predicted" /\ X_query = X_train

\* C8 as stated: KNN with k = 1, asked to predict its training matrix, returns the
\* training labels, for every training set.
C8_ReproducesLabels ==
    (PredictedOnTraining /\ k = 1) => predictions = y_train

\* equal training rows carry equal labels
ConsistentLabels == \A a, b \in Rows(X_train) : X_train[a] = X_train[b] => y_train[a] = y_train[b]

\* C8 amended: KNN with k = 1, asked to predict its training matrix, returns the training
\* labels for every training set in which equal rows carry equal labels.
C8_ReproducesConsistentLabels ==
    (PredictedOnTraining /\ k = 1 /\ ConsistentLabels) => predictions = y_train

\* a prediction with k = 1 on a training set of several rows that carries both labels
C8_Witness ==
    /\ PredictedOnTraining /\ k = 1 /\ ConsistentLabels
    /\ \E a, b \in Rows(X_train) : y_train[a] # y_train[b]

\* how often the row index r occurs in the list s
Occurrences(s, r) == Cardinality({p \in DOMAIN s : s[p] = r})

\* C9: train_test_split returns train and test parts that come from disjoint sets of row
\* indices, together use each of the N indices exactly once, and keep each returned label
\* with the row it had in the input.
C9_SplitIsPartition ==
    (alg = "train_test_split" /\ pc = "done") =>
        LET tr == split.train_indices
            te == split.test_indices
        IN  /\ SeqToSet(tr) \cap SeqToSet(te) = {}
            /\ \A r \in Rows(X) : Occurrences(tr, r) + Occurrences(te, r) = 1
            /\ SeqToSet(tr) \cup SeqToSet(te) = Rows(X)
            /\ Len(split.X_train) = Len(tr) /\ Len(split.y_train) = Len(tr)
            /\ Len(split.X_test) = Len(te) /\ Len(split.y_test) = Len(te)
            /\ \A p \in DOMAIN tr : split.X_train[p] = X[tr[p]] /\ split.y_train[p] = y[tr[p]]
            /\ \A p \in DOMAIN te : split.X_test[p] = X[te[p]] /\ split.y_test[p] = y[te[p]]

\* a split of several rows with both parts not empty
C9_Witness ==
    /\ alg = "train_test_split" /\ pc = "done" /\ NRows(X) >= 2
    /\ Len(split.X_test) >= 1 /\ Len(split.X_train) >= 1

\* C10 as stated: the test part has round(N * test_size) rows (whichever way a half is
\* rounded) and the train part the other rows.
C10_RoundedTestSize ==
    (alg = "train_test_split" /\ pc = "done") =>
        /\ 2 * Abs(NRows(X) * test_size[1] - Len(split.X_test) * test_size[2]) <= test_size[2]
        /\ Len(split.X_train) = NRows(X) - Len(split.X_test)

\* C10 amended: the test part has floor(N * test_size) rows, the product truncated, and
\* the train part the other rows.
C10_TruncatedTestSize ==
    (alg = "train_test_split" /\ pc = "done") =>
        /\ Len(split.X_test) * test_size[2] <= NRows(X) * test_size[1]
        /\ NRows(X) * test_size[1] < (Len(split.X_test) + 1) * test_size[2]
        /\ Len(split.X_train) = NRows(X) - Len(split.X_test)

\* a split in which N * test_size is no integer and its fraction is a half or more
C10_Witness ==
    /\ alg = "train_test_split" /\ pc = "done"
    /\ 2 * ((NRows(X) * test_size[1]) % test_size[2]) >= test_size[2]
    /\ Len(split.X_test) >= 1

\* how many positions of the list s satisfy the test P
CountOf(s, P(_)) == Cardinality({p \in DOMAIN s : P(p)})

ConfusionDone == alg = "confusion_matrix" /\ pc = "done"

\* C11: confusion_matrix returns as classes the sorted union of the labels of y_true and
\* y_pred, and a square matrix whose entry [i][j] is the number of positions with true
\* class i and predicted class j; so row i sums to the occurrences of class i in y_true
\* and all the entries sum to N.
C11_ConfusionMatrixCounts ==
    ConfusionDone =>
        LET classes == result.classes
            m == result.matrix
            idx == 0..(Len(classes) - 1)
        IN  /\ SeqToSet(classes) = SeqToSet(y_true) \cup SeqToSet(y_pred)
            /\ \A p, q \in DOMAIN classes : p < q => classes[p] < classes[q]
            /\ DOMAIN m = idx
            /\ \A i \in idx : DOMAIN m[i] = idx
            /\ \A i, j \in idx :
                   m[i][j] = CountOf(y_true, LAMBDA p : y_true[p] = classes[i + 1]
                                                        /\ y_pred[p] = classes[j + 1])
            /\ \A i \in idx : SumFn(m[i]) = CountOf(y_true, LAMBDA p : y_true[p] = classes[i + 1])
            /\ SumFn([i \in idx |-> SumFn(m[i])]) = Len(y_true)

\* a matrix of two classes that counts a right and a wrong prediction
C11_Witness ==
    /\ ConfusionDone /\ Len(result.classes) = 2
    /\ result.matrix[0][1] > 0 /\ result.matrix[1][1] > 0

ScoreNames == {"precision_score", "recall_score", "f1_score"}

\* a (which is not nan) lies in [0, 1]
InUnit(a) == a[2] > 0 /\ 0 <= a[1] /\ a[1] <= a[2]

\* the denominator of the score of the class at place p of the classes is 0
ZeroDenominator(p) ==
    LET c == Classes(y_true, y_pred)[p]
    IN  CASE alg = "precision_score" -> \A q \in DOMAIN y_pred : y_pred[q] # c
          [] alg = "recall_score" -> \A q \in DOMAIN y_true : y_true[q] # c
          [] alg = "f1_score" -> \A q \in DOMAIN y_true : ~(y_true[q] = c /\ y_pred[q] = c)

\* C12 as stated: for all label vectors of equal length, every per-class and every
\* macro-averaged value of precision_score, recall_score and f1_score lies in [0,1], and
\* a class whose denominator is 0 is scored exactly 0.
C12_ScoresInUnit ==
    (alg \in ScoreNames /\ pc = "done") =>
        /\ average = "macro" => InUnit(result)
        /\ average = None =>
               \A p \in DOMAIN result :
                   /\ InUnit(result[p])
                   /\ ZeroDenominator(p) => result[p][1] = 0

\* accuracy_score returned
AccuracyDone == alg = "accuracy_score" /\ pc = "done"

\* the bijective renamings of the labels
Renamings == {f \in [0..MaxLabel -> 0..MaxLabel] : \A a, b \in 0..MaxLabel : a # b => f[a] # f[b]}

Renamed(f, s) == [p \in DOMAIN s |-> f[s[p]]]

\* C13: accuracy_score(y_true, y_pred) is the fraction of the positions where the two
\* labels are equal (nan, 0/0, when there is no position), and the same bijective
\* renaming of the labels of both lists leaves it unchanged.
C13_AccuracyFraction ==
    AccuracyDone =>
        /\ result = <<CountOf(y_true, LAMBDA p : y_true[p] = y_pred[p]), Len(y_true)>>
        /\ \A f \in Renamings :
               AccuracyOf(Renamed(f, y_true), Renamed(f, y_pred)) = result

\* an accuracy strictly between 0 and 1 on lists that a renaming changes, where the
\* true label is greater than the predicted one at some position
C13_Witness ==
    /\ AccuracyDone /\ Len(y_true) >= 2
    /\ 0 < result[1] /\ result[1] < result[2]
    /\ \E p \in DOMAIN y_true : y_true[p] > y_pred[p]

\* fit_transform of the class a returned: transform was given the matrix fit was given
FitTransformed(a) == alg = a /\ pc = "transformed" /\ X_arg = X

\* the cells of column c of M are all equal
ColumnConstant(M, c) == \A r, q \in Rows(M) : M[r][c] = M[q][c]

\* C14: MinMaxScaler.fit_transform on training data X gives, for every column whose
\* values are not all equal, a column whose minimum is exactly 0 and whose maximum is
\* exactly 1.
C14_MinMaxUnitRange ==
    FitTransformed("MinMaxScaler") =>
        \A c \in Cols :
            ~ColumnConstant(X, c) =>
                /\ \E r \in Rows(X_new) : REq(X_new[r][c], <<0, 1>>)
                /\ \E r \in Rows(X_new) : REq(X_new[r][c], <<1, 1>>)
                /\ \A r \in Rows(X_new) :
                       RLeq(<<0, 1>>, X_new[r][c]) /\ RLeq(X_new[r][c], <<1, 1>>)

\* fit_transform of a matrix with a column of different values, none of them 0, next to
\* a column of equal values
C14_Witness ==
    /\ FitTransformed("MinMaxScaler")
    /\ \E c, c2 \in Cols :
        /\ ~ColumnConstant(X, c) /\ ColMin(X, c)[1] > 0
        /\ ColumnConstant(X, c2)

\* the cell a scaler returned is the number v
CellIs(cell, v) ==
    IF alg = "StandardScaler"
    THEN /\ (cell.d[1] >= 0) = (v[1] >= 0)
         /\ REq(RMul(cell.d, cell.d), RMul(RMul(v, v), cell.s2))
    ELSE REq(cell, v)

ScalerFitTransformed == FitTransformed("MinMaxScaler") \/ FitTransformed("StandardScaler")

\* C15 as stated: for a training column whose values are all equal, transform of the
\* training data returns each cell's original value.
C15_ConstantColumnKept ==
    ScalerFitTransformed =>
        \A c \in Cols :
            ColumnConstant(X, c) => \A r \in Rows(X) : CellIs(X_new[r][c], X[r][c])

\* C15 amended: for a training column whose values are all equal, transform of the
\* training data returns 0 in each cell (the value minus the column's minimum or mean,
\* over the substituted denominator 1).
C15_ConstantColumnZero ==
    ScalerFitTransformed =>
        \A c \in Cols :
            ColumnConstant(X, c) => \A r \in Rows(X) : CellIs(X_new[r][c], <<0, 1>>)

\* a scaler transformed training data of several rows with a column of equal values
\* other than 0
C15_Witness ==
    /\ FitTransformed("StandardScaler") /\ NRows(X) >= 2
    /\ \E c \in Cols : ColumnConstant(X, c) /\ X[0][c][1] > 0

ImputerTransformed == alg = "SimpleImputer" /\ pc = "transformed"

\* C16: SimpleImputer.transform returns a new matrix in which every cell that was present
\* in the input keeps its value and every missing cell of column c is the statistic
\* stored for column c at fit time; the input matrix itself is left unchanged.
C16_FillsOnlyMissing ==
    ImputerTransformed =>
        /\ X_after = X_arg
        /\ Rows(X_new) = Rows(X_arg)
        /\ \A r \in Rows(X_arg) : \A c \in Cols :
               X_new[r][c] = (IF IsNaN(X_arg[r][c]) THEN stats_[c] ELSE X_arg[r][c])

\* transform filled a missing cell with a statistic that is a number, in a matrix that
\* has a present cell in the same column
C16_Witness ==
    /\ ImputerTransformed
    /\ \E c \in Cols : \E r, q \in Rows(X_arg) :
        /\ IsNaN(X_arg[r][c]) /\ ~IsNaN(X_arg[q][c])
        /\ ~IsNaN(X_new[r][c])

\* C17 as stated: AGNES.fit with a linkage other than 'single', 'complete' or 'average'
\* ends in an error and returns no labels, for every X and k.
C17_UnknownLinkageFails ==
    (alg = "AGNES" /\ linkage \notin Linkages) => pc # "done"

\* C18 as stated: an imputer configured with a strategy other than 'mean' or 'median'
\* fails with an error as soon as fit is called; fit does not complete.
C18_UnknownStrategyFails ==
    (alg = "SimpleImputer" /\ strategy \notin KnownStrategies) =>
        pc \notin {"fitted", "transformed"}

\* fit returned a label vector (KMeans and KMedoids return None after zero passes)
ReturnedLabels == pc = "done" /\ (alg \in {"KMeans", "KMedoids"} => it > 0)

\* C19 as stated: fit of KMeans, KMedoids, AGNES and DIANA ends in an error, and returns
\* no label vector, whenever k < 2 or k >= N.
C19_InvalidKFails ==
    (/\ alg \in {"KMeans", "KMedoids", "AGNES", "DIANA"}
     /\ pc # "constructed"
     /\ (k < 2 \/ k >= NRows(X)))
        => ~ReturnedLabels

\* KMeans(k=2), max_iters left at its default, returned from fit on the scenario's matrix
ScenarioDone ==
    /\ alg = "KMeans" /\ pc = "done" /\ k = 2 /\ max_iters = DefaultMaxIters
    /\ X = ScenarioX

\* C20: on X = [[0,0],[0,1],[5,5],[5,6]], KMeans(k=2).fit returns, for every choice of
\* the two distinct initial centroid rows, labels with label[0] = label[1],
\* label[2] = label[3] and label[0] # label[2].
C20_ScenarioSeparated ==
    ScenarioDone =>
        /\ labels[0] = labels[1]
        /\ labels[2] = labels[3]
        /\ labels[0] # labels[2]

\* a run that stopped early after it had to move a row from one cluster to the other:
\* its first assignment did not separate the two pairs
C20_Witness ==
    /\ ScenarioDone /\ it >= 3 /\ it < max_iters
    /\ inertia[2][1] * inertia[1][2] < inertia[1][1] * inertia[2][2]

\* ------------------------------------------ fit again on the same instance
\* the states fit can be called in: on a new instance, after a fit that returned and
\* after a fit that raised
FitCallable == {"constructed", "done", "error"}

\* the most rows of an X given to a fit call on an instance that is fitted again
MaxRefitN == 2

\* the largest coordinate of such an X
MaxRefitCoord == 1

\* the X of these fit calls
RefitInputs ==
    UNION {[0..(n - 1) -> {<<c>> : c \in 0..MaxRefitCoord}] : n \in 1..MaxRefitN}

KMeansFitAgain == KMeansFitFrom(RefitInputs, FitCallable)

KMedoidsFitAgain == KMedoidsFitFrom(RefitInputs, FitCallable)

NextRefit == KMeansFitAgain \/ KMeansIter \/ KMedoidsFitAgain \/ KMedoidsIter

\* one KMeans or KMedoids instance, and any sequence of fit calls on it
SpecRefit == (InitKMeans \/ InitKMedoids) /\ [][NextRefit]_vars

\* the rows that carry label j
LabelledRows(j) == {r \in Rows(X) : labels[r] = j}

\* the state KMeans stores is one that fit computes from X alone: without a pass of the
\* loop, k distinct rows of X and no labels; after a pass, a label for each row of X,
\* the mean of the rows of X that carry the label as its centroid, and a row of X as the
\* centroid of a label no row carries
KMeansStateFrom(M) ==
    IF it = 0
    THEN /\ labels = None
         /\ \E idx \in Choices(NRows(M), k) :
                \A j \in 0..(k - 1) : centroids[j] = [s |-> M[idx[j]], c |-> 1]
    ELSE /\ DOMAIN labels = Rows(M)
         /\ \A r \in Rows(M) : labels[r] \in 0..(k - 1)
         /\ Len(inertia) = it
         /\ \A j \in 0..(k - 1) :
                IF LabelledRows(j) # {}
                THEN /\ centroids[j].c = Cardinality(LabelledRows(j))
                     /\ \A d \in DOMAIN centroids[j].s :
                            centroids[j].s[d] = SumFn([r \in LabelledRows(j) |-> M[r][d]])
                ELSE \E r \in Rows(M) : centroids[j] = [s |-> M[r], c |-> 1]

\* the same for KMedoids: the medoids are rows of X, distinct ones before the first
\* pass, and after a pass the medoid of a label some row carries is one of these rows
KMedoidsStateFrom(M) ==
    /\ \A j \in 0..(k - 1) : medoid_indices[j] \in Rows(M) /\ medoids[j] = M[medoid_indices[j]]
    /\ IF it = 0
       THEN /\ labels = None
            /\ medoid_indices \in Choices(NRows(M), k)
       ELSE /\ DOMAIN labels = Rows(M)
            /\ \A r \in Rows(M) : labels[r] \in 0..(k - 1)
            /\ Len(inertia) = it
            /\ \A j \in 0..(k - 1) :
                   LabelledRows(j) # {} => medoid_indices[j] \in LabelledRows(j)

StateFrom(M) == IF alg = "KMeans" THEN KMeansStateFrom(M) ELSE KMedoidsStateFrom(M)

\* what fit stores on the instance
StoredState == <<labels, centroids, medoid_indices, medoids>>

CentroidCoord(c, d) == <<c.s[d], c.c>>

\* how far a moved from b, a rational
RDist(a, b) == <<Abs(a[1] * b[2] - b[1] * a[2]), a[2] * b[2]>>

\* every coordinate of every centroid changes by less than tol in this round
AllMovedLessThanTol ==
    \A j \in 0..(k - 1) : \A d \in DOMAIN centroids[j].s :
        RLess(RDist(CentroidCoord(centroids'[j], d), CentroidCoord(centroids[j], d)), tol)

\* the round that is due can be taken: there is a row to draw for each cluster that
\* the assignment leaves empty
CanReseed == k = 0 \/ [EmptyClusters(X, KMeansAssign(X, centroids), k) -> Rows(X)] # {}

\* C22: KMeans.fit terminates after at most max_iters rounds (while it runs, fewer than
\* max_iters rounds are done and the next round can be taken, and a round adds one to
\* the count); it returns right after the first round in which every coordinate of
\* every centroid changes by less than tol, and after exactly max_iters rounds when
\* there is no such round.
C22_KMeansTerminates ==
    /\ []((alg = "KMeans" /\ pc = "loop") => (it < max_iters /\ CanReseed))
    /\ [][(alg = "KMeans" /\ pc = "loop" /\ pc' # "error")
            => /\ it' = it + 1
               /\ pc' \in {"loop", "done"}
               /\ (pc' = "done") <=> (AllMovedLessThanTol \/ it' = max_iters)]_vars

\* fit returned before max_iters rounds were done
C22_Witness ==
    /\ alg = "KMeans" /\ pc = "done" /\ it >= 1 /\ it < max_iters /\ k >= 2

\* a pass of the KMedoids loop that did not raise
KMedoidsPassed == alg = "KMedoids" /\ pc = "loop" /\ pc' # "error"

\* the clusters whose medoid index this pass changed
ChangedMedoids == {j \in 0..(k - 1) : medoid_indices'[j] # medoid_indices[j]}

\* the clusters to which this pass assigned no row
EmptiedClusters == {j \in 0..(k - 1) : \A r \in Rows(X) : labels'[r] # j}

\* C23: KMedoids.fit returns right after the first pass in which no medoid index
\* changes, or after max_iters passes; a cluster to which a pass assigns no row keeps
\* its medoid index in that pass; every stored medoid index is a row index of X.
C23_KMedoidsStops ==
    /\ []((alg = "KMedoids" /\ pc \in {"loop", "done"})
            => (it <= max_iters /\ \A j \in 0..(k - 1) : medoid_indices[j] \in Rows(X)))
    /\ [][KMedoidsPassed
            => /\ it' = it + 1
               /\ (pc' = "done") <=> (ChangedMedoids = {} \/ it' = max_iters)
               /\ pc' \in {"loop", "done"}
               /\ EmptiedClusters \cap ChangedMedoids = {}]_vars

\* fit returned before max_iters passes, and its last pass left a cluster empty
C23_Witness ==
    /\ alg = "KMedoids" /\ pc = "done" /\ it >= 1 /\ it < max_iters
    /\ \E j \in 0..(k - 1) : \A r \in Rows(X) : labels[r] # j

\* a pass of the AGNES loop that merged two clusters
AGNESMerged == alg = "AGNES" /\ pc = "loop" /\ pc' = "loop" /\ clusters' # clusters

\* the pair (i, j) has the least linkage distance of all pairs, and no pair that the two
\* loops visit before it (a lower i, or the same i and a lower j) has that distance
FirstClosestPair(i, j) ==
    LET d == ClusterDistance(X, clusters[i], clusters[j], linkage)
    IN  \A a \in 1..Len(clusters) : \A b \in (a + 1)..Len(clusters) :
            LET dab == ClusterDistance(X, clusters[a], clusters[b], linkage)
            IN  /\ d[1] * dab[2] <= dab[1] * d[2]
                /\ (a < i \/ (a = i /\ b < j)) => d[1] * dab[2] < dab[1] * d[2]

\* the new list is the old one with cluster j appended to cluster i and taken out
IsMergeOf(i, j) ==
    /\ Len(clusters') = Len(clusters) - 1
    /\ \A p \in 1..Len(clusters') :
           clusters'[p] = IF p = i THEN clusters[i] \o clusters[j]
                          ELSE IF p < j THEN clusters[p]
                          ELSE clusters[p + 1]

\* C24: each AGNES step merges the pair (i, j), i < j, of the smallest linkage
\* distance, the first one in the order of (i, j) when several pairs have it, and
\* lowers the cluster count by one; for N >= k >= 1 fit returns exactly k clusters.
C24_MergesFirstClosestPair ==
    /\ []((alg = "AGNES" /\ pc = "done" /\ k >= 1 /\ k <= NRows(X))
            => (Len(clusters) = k /\ {labels[r] : r \in Rows(X)} = 0..(k - 1)))
    /\ [][AGNESMerged
            => \E i \in 1..Len(clusters) : \E j \in (i + 1)..Len(clusters) :
                   FirstClosestPair(i, j) /\ IsMergeOf(i, j)]_vars

\* fit returned two clusters of three rows of which the middle one is as far from the
\* first as from the last: the pairs (0, 1) and (1, 2) tied and (0, 1) was merged
C24_Witness ==
    /\ alg = "AGNES" /\ pc = "done" /\ k = 2 /\ NRows(X) = 3
    /\ X[0][1] < X[1][1] /\ X[1][1] - X[0][1] = X[2][1] - X[1][1]
    /\ labels[0] = 0 /\ labels[1] = 0 /\ labels[2] = 1

\* a pass of the DIANA loop that split a cluster
DIANASplit == alg = "DIANA" /\ pc = "loop" /\ pc' = "loop" /\ clusters' # clusters

\* the largest distance of two rows of the cluster at position p
LargestDistance(p) ==
    MaxOf({Abs(X[a][1] - X[b][1]) : a \in SeqToSet(clusters[p]), b \in SeqToSet(clusters[p])})

\* the cluster at position p has two or more rows and the largest diameter of the
\* clusters that have, and no cluster before it has both
FirstWidest(p) ==
    /\ Len(clusters[p]) >= 2
    /\ \A o \in 1..Len(clusters) :
           Len(clusters[o]) >= 2 =>
               /\ LargestDistance(o) <= LargestDistance(p)
               /\ o < p => LargestDistance(o) < LargestDistance(p)

\* the new list is the old one without the cluster at p, and two lists after it that
\* hold the rows of that cluster
IsSplitOf(p) ==
    /\ Len(clusters') = Len(clusters) + 1
    /\ \A q \in 1..(Len(clusters) - 1) :
           clusters'[q] = IF q < p THEN clusters[q] ELSE clusters[q + 1]
    /\ SeqToSet(clusters'[Len(clusters)]) \cup SeqToSet(clusters'[Len(clusters) + 1])
           = SeqToSet(clusters[p])

\* C25: each DIANA step splits, of the clusters of two or more rows, the one of the
\* largest diameter, the first in list order on ties; a cluster of fewer than two rows
\* is never split; when no cluster has two rows before there are k clusters the loop
\* stops and fit returns fewer than k clusters.
C25_SplitsFirstWidest ==
    /\ []((alg = "DIANA" /\ pc \in {"labelling", "done"})
            => /\ broke <=> (Len(clusters) < k)
               /\ broke => \A p \in 1..Len(clusters) : Len(clusters[p]) <= 1)
    /\ [][DIANASplit => \E p \in 1..Len(clusters) : FirstWidest(p) /\ IsSplitOf(p)]_vars

\* fit returned three clusters of four rows: the first split left two clusters of two
\* rows of the same diameter, and the second split took the first of them
C25_Witness ==
    /\ alg = "DIANA" /\ pc = "done" /\ k = 3 /\ NRows(X) = 4 /\ Len(clusters) = 3
    /\ Len(clusters[1]) = 2 /\ Len(clusters[2]) = 1 /\ Len(clusters[3]) = 1
    /\ Diameter(X, clusters[1]) = Diameter(X, clusters[2] \o clusters[3])
    /\ Diameter(X, clusters[1]) > 0

\* C27: _split_cluster of a cluster of two or more rows returns two non-empty disjoint
\* groups whose union is the cluster, equal rows included; so a DIANA step that splits
\* adds one to the cluster count, and for 1 <= k <= N fit returns exactly k clusters.
C27_SplitIsProper ==
    /\ []((alg = "DIANA" /\ pc = "done" /\ k >= 1 /\ k <= NRows(X))
            => (Len(clusters) = k /\ {labels[r] : r \in Rows(X)} = 0..(k - 1)))
    /\ [][DIANASplit
            => /\ Len(clusters') = Len(clusters) + 1
               /\ LET remainder == SeqToSet(clusters'[Len(clusters)])
                      splinter == SeqToSet(clusters'[Len(clusters) + 1])
                  IN  /\ remainder # {} /\ splinter # {}
                      /\ remainder \cap splinter = {}
                      /\ Len(clusters'[Len(clusters)]) = Cardinality(remainder)
                      /\ Len(clusters'[Len(clusters) + 1]) = Cardinality(splinter)
                      /\ \E p \in 1..Len(clusters) :
                             /\ Len(clusters[p]) >= 2
                             /\ remainder \cup splinter = SeqToSet(clusters[p])]_vars

\* fit returned k >= 2 clusters of an X whose rows are all equal
C27_Witness ==
    /\ alg = "DIANA" /\ pc = "done" /\ k >= 2 /\ NRows(X) >= 3 /\ Len(clusters) = k
    /\ \A r \in Rows(X) : X[r] = X[0]

\* row a of the training matrix comes before row b in a stable ascending sort of the
\* distances to x
StableBefore(a, b, x) ==
    \/ SqDist(X_train[a], x) < SqDist(X_train[b], x)
    \/ SqDist(X_train[a], x) = SqDist(X_train[b], x) /\ a < b

\* the first k rows of that sort (all rows when there are fewer)
StableNearest(x) ==
    {a \in Rows(X_train) : Cardinality({b \in Rows(X_train) : StableBefore(b, a, x)}) < k}

\* the label with the most votes among the rows S, the one that sorts first on a tie
FirstMostVoted(S) ==
    CHOOSE l \in {y_train[r] : r \in S} :
        \A o \in {y_train[r] : r \in S} :
            LET nl == Cardinality({r \in S : y_train[r] = l})
                no == Cardinality({r \in S : y_train[r] = o})
            IN  no < nl \/ (no = nl /\ l <= o)

C28_CoreNeighboursShareLabel ==
    (alg = "DBSCAN" /\ pc = "done") =>
        \A a, b \in Rows(X) :
            (/\ Cardinality({q \in Rows(X) : Abs(X[q][1] - X[a][1]) <= eps}) >= min_samples
             /\ Cardinality({q \in Rows(X) : Abs(X[q][1] - X[b][1]) <= eps}) >= min_samples
             /\ Abs(X[a][1] - X[b][1]) <= eps)
                => (labels[a] = labels[b] /\ labels[a] >= 0)

\* fit returned one cluster of three core rows, of which the first two are farther
\* than eps apart: the second was reached through the third
C28_Witness ==
    /\ alg = "DBSCAN" /\ pc = "done" /\ NRows(X) = 3 /\ min_samples >= 2
    /\ Norm(X[0], X[1]) > eps
    /\ \A r \in Rows(X) : IsCore(r) /\ labels[r] = 0

\* ---------------------------------------------------- GaussianNaiveBayes
\* line 416: np.unique(y), the labels in increasing order
UniqueLabels(yy) == SetToSeq({yy[r] : r \in DOMAIN yy})

\* line 424: the rows of class c
ClassRows(yy, c) == {r \in DOMAIN yy : yy[r] = c}

\* line 425: X_c.mean(axis=0), a rational for each column
ClassMean(M, members) ==
    [d \in DOMAIN M[CHOOSE r \in members : TRUE] |->
        <<SumFn([r \in members |-> M[r][d]]), Cardinality(members)>>]

\* line 426: X_c.var(axis=0), the mean of the squared deviations from the mean, a
\* rational for each column; eps counts the additions of 1e-9 made to the cell since
ClassVar(M, members) ==
    [d \in DOMAIN M[CHOOSE r \in members : TRUE] |->
        LET n == Cardinality(members)
            s1 == SumFn([r \in members |-> M[r][d]])
            s2 == SumFn([r \in members |-> M[r][d] * M[r][d]])
        IN  [v |-> <<n * s2 - s1 * s1, n * n>>, eps |-> 0]]

\* lines 448-449: var = self.var[class_idx] is a view of the row of self.var, and
\* var += 1e-9 adds to it in place; n calls add n times
VarAfterPdf(vr, n) == [d \in DOMAIN vr |-> [vr[d] EXCEPT !.eps = @ + n]]

\* the most additions of 1e-9 to a cell that are followed
MaxPdfCalls == 3

InitGNB ==
    /\ alg = "GaussianNaiveBayes"
    /\ pc = "constructed"
    /\ X = None /\ y = None
    /\ k = None
    /\ labels = None
    /\ nb_classes = None /\ nb_mean = None /\ nb_var = None /\ nb_priors = None
    /\ NoIter /\ NoKMeans /\ NoKMedoids /\ NoHier /\ NoDBSCAN /\ NoKNN /\ NoSplit
    /\ NoMetrics /\ NoPrep

\* lines 412-427
GNBFit ==
    /\ alg = "GaussianNaiveBayes" /\ pc = "constructed"
    /\ \E M \in Matrices(MaxTrain) : \E yy \in Labelings(M) :
        /\ X' = M /\ y' = yy
        /\ nb_classes' = UniqueLabels(yy)
        /\ nb_mean' = [i \in 0..(Len(UniqueLabels(yy)) - 1) |->
                          ClassMean(M, ClassRows(yy, UniqueLabels(yy)[i + 1]))]
        /\ nb_var' = [i \in 0..(Len(UniqueLabels(yy)) - 1) |->
                         ClassVar(M, ClassRows(yy, UniqueLabels(yy)[i + 1]))]
        /\ nb_priors' = [i \in 0..(Len(UniqueLabels(yy)) - 1) |->
                            <<Cardinality(ClassRows(yy, UniqueLabels(yy)[i + 1])), NRows(M)>>]
    /\ pc' = "fitted"
    /\ UNCHANGED <<alg, k, labels, knnVars>>
    /\ UNCHANGED <<iterVars, kmeansVars, kmedoidsVars, hierVars, dbscanVars, splitVars, metricsVars, prepVars>>

\* lines 429-452, on the training matrix or on a matrix of one row: _predict calls _pdf
\* once for each class and each row of X, and each call adds 1e-9 to the class's row of
\* self.var. The label of a row is the class of the largest log posterior; the logarithms
\* are not computed here, and the label is left open among the classes.
GNBPredict ==
    /\ alg = "GaussianNaiveBayes" /\ pc \in {"fitted", "predicted"}
    /\ \E Q \in {X} \cup Matrices(1) :
        /\ \A i \in DOMAIN nb_var : \A d \in DOMAIN nb_var[i] :
               nb_var[i][d].eps + NRows(Q) <= MaxPdfCalls
        /\ X_query' = Q
        /\ predictions' \in [Rows(Q) -> SeqToSet(nb_classes)]
        /\ nb_var' = [i \in DOMAIN nb_var |-> VarAfterPdf(nb_var[i], NRows(Q))]
    /\ pc' = "predicted"
    /\ UNCHANGED <<alg, X, y, k, labels, X_train, y_train, nb_classes, nb_mean, nb_priors>>
    /\ UNCHANGED <<iterVars, kmeansVars, kmedoidsVars, hierVars, dbscanVars, splitVars, metricsVars, prepVars>>

NextGNB == GNBFit \/ GNBPredict

SpecGNB == InitGNB /\ [][NextGNB]_vars

\* the variance fit computes for the training data the instance was fitted on
FittedVar ==
    [i \in 0..(Len(UniqueLabels(y)) - 1) |-> ClassVar(X, ClassRows(y, UniqueLabels(y)[i + 1]))]

\* C29: GaussianNaiveBayes.predict leaves classes, mean, variance and priors as fit
\* stored them: after any number of predict calls the stored variance is the variance
\* fit computed.
C29_PredictKeepsState ==
    (alg = "GaussianNaiveBayes" /\ pc = "predicted") =>
        /\ nb_var = FittedVar
        /\ nb_classes = UniqueLabels(y)
        /\ \A i \in DOMAIN nb_mean :
               /\ nb_mean[i] = ClassMean(X, ClassRows(y, nb_classes[i + 1]))
               /\ nb_priors[i] = <<Cardinality(ClassRows(y, nb_classes[i + 1])), NRows(X)>>

\* predict was called on a model of two classes, and the stored variance of each class
\* is the variance of fit plus 1e-9 for each row predicted so far
C29_Witness ==
    /\ alg = "GaussianNaiveBayes" /\ pc = "predicted" /\ Len(nb_classes) = 2
    /\ \A i \in DOMAIN nb_var : \A d \in DOMAIN nb_var[i] :
           nb_var[i][d].v = FittedVar[i][d].v /\ nb_var[i][d].eps >= 2

\* KMeans.fit or KMedoids.fit returned after at least one pass of its loop
ReturnedAfterPass == alg \in {"KMeans", "KMedoids"} /\ pc = "done" /\ it >= 1 /\ k >= 1

\* C30: when KMeans.fit or KMedoids.fit returns after max_iters >= 1, early or not, the
\* label of every row is the index of its nearest stored centroid or medoid, the lowest
\* index on ties.
C30_LabelsMatchStoredCentres ==
    ReturnedAfterPass =>
        \A r \in Rows(X) :
            IF alg = "KMeans"
            THEN \A j \in 0..(k - 1) :
                    /\ RLeq(SqDistToCentroid(X[r], centroids[labels[r]]),
                            SqDistToCentroid(X[r], centroids[j]))
                    /\ j < labels[r] => RLess(SqDistToCentroid(X[r], centroids[labels[r]]),
                                              SqDistToCentroid(X[r], centroids[j]))
            ELSE \A j \in 0..(k - 1) :
                    /\ SqDist(X[r], medoids[labels[r]]) <= SqDist(X[r], medoids[j])
                    /\ j < labels[r] => SqDist(X[r], medoids[labels[r]]) < SqDist(X[r], medoids[j])

\* fit returned at max_iters, its last update moved a centre, and a row carries the
\* label of a centre that is no longer its nearest
C30_Witness ==
    /\ ReturnedAfterPass /\ it = max_iters /\ k = 2
    /\ \E r \in Rows(X) :
           IF alg = "KMeans"
           THEN RLess(SqDistToCentroid(X[r], centroids[1 - labels[r]]),
                      SqDistToCentroid(X[r], centroids[labels[r]]))
           ELSE SqDist(X[r], medoids[1 - labels[r]]) < SqDist(X[r], medoids[labels[r]])

====
